---- MODULE Spec2Model ----
(***************************************************************************)
(* Report-card application: the admin grade form (src/admin.js, two        *)
(* variants: "A" = lines 1-564, "B" = lines 566-1228), the dashboard view  *)
(* (src/unnamed/part_000) and the student view (src/script.js).            *)
(*                                                                         *)
(* Encodings.                                                              *)
(*  - A period id / object key is the string pfx ++ decimal(num); it is    *)
(*    kept as the record [pfx, num], num = NoNum when the key has no       *)
(*    digits.  Prefixes hold no digit, so the encoding is injective.       *)
(*  - A number is an exact rational [n, d]; d = 0 stands for the NaN or    *)
(*    Infinity a division by zero yields.  IEEE rounding is not modelled.  *)
(*  - A stored score is a natural number, Missing (undefined, null or '')  *)
(*    or Garbage (a non-numeric, non-empty string).                        *)
(***************************************************************************)
EXTENDS Integers, Sequences, FiniteSets, TLC

VARIABLES
    variant,        \* which admin.js variant the page runs: "A" or "B"
    activePeriods,  \* admin.js: let activePeriods
    subjects,       \* DOM: the .subject-name-group inputs (name, comment)
    inputs,         \* DOM: the grade inputs, inputs[i][k] for subject i, k-th rendered period
    avgs,           \* DOM: what calculateAndDisplayAverages last wrote
    readOnly,       \* DOM: student-id input readOnly (edit mode)
    cancelHidden,   \* DOM: cancel-edit / delete buttons hidden
    alertMsg,       \* the alert() the last handler raised ("" if none)
    rerendered,     \* whether the last handler re-rendered the grade inputs
    payload,        \* the grades array the last handler sent to the server (<<>> if none)
    request,        \* the request the last handler made and whether the server
                    \* answered with success (method "" if none)
    ops,            \* number of handler runs so far (bounded by MaxOps)
    cKind,          \* function application: which input was drawn
    cGrades,        \* function application: a student's grades array
    cPeriods,       \* function application: a list of periods
    cScore,         \* function application: a score in hundredths, or an ordinal
    cOut,           \* function application: the result of the last call; for a view,
                    \* what its report section shows
    cAgain,         \* whether the view had the current student on display already
                    \* when it last displayed them
    students,       \* server.js: the Student collection, by _id
    response,       \* server.js: the request last handled and its answer
    page,           \* which login page is open: "student" (script.js) or "dashboard"
    section,        \* DOM: which section is visible, "login" or "report"
    currentStudentData, \* script.js / part_000: let currentStudentData
    inactivityTimer,    \* script.js: let inactivityTimer (0 while undefined)
    timeouts,       \* the timeouts set and neither cleared nor fired yet
    sessionModal,   \* DOM: session-expired-modal shown
    errorMessage,   \* DOM: the login error message shown
    loadingSpinner, \* DOM: loading-spinner shown
    submitDisabled, \* DOM: the login form's submit button disabled
    logins,         \* the login attempts waiting for their fetch
    event,          \* what the last handler of the login page was and got
    handlers,       \* server.js: the create / delete requests, each where its
                    \* handler stands and what it answered
    logs,           \* server.js: the Log collection
    served          \* server.js: the request last served by the route table: its
                    \* answer, whether its handler ran, what the handler did

adminVars == <<variant, activePeriods, subjects, inputs, avgs, readOnly,
               cancelHidden, alertMsg, rerendered, payload, request, ops>>
calcVars == <<cKind, cGrades, cPeriods, cScore, cOut, cAgain>>
serverVars == <<students, response>>
pageVars == <<page, section, currentStudentData, inactivityTimer, timeouts,
              sessionModal, errorMessage, loadingSpinner, submitDisabled,
              logins, event>>
requestVars == <<handlers, logs, served>>

(***************************************************************************)
(* Bounds of the model                                                     *)
(***************************************************************************)
MaxSubjects == 2
MaxPeriods == 11
MaxOps == 4
MaxTimeouts == 2
MaxLogins == 2
MaxRequests == 2

(***************************************************************************)
(* Numbers                                                                 *)
(***************************************************************************)
NoNum == 0 - 1      \* a key without digits; parseInt of it is NaN
Missing == 0 - 1    \* undefined / null / '' score
Garbage == 0 - 2    \* non-numeric, non-empty text where a score is expected

RECURSIVE GCD(_, _)
GCD(a, b) == IF b = 0 THEN a ELSE GCD(b, a % b)

\* the rational n/d in lowest terms; d = 0 is kept as NaN (0/0) or Infinity (1/0)
R(n, d) ==
    IF d = 0 THEN [n |-> IF n = 0 THEN 0 ELSE 1, d |-> 0]
    ELSE LET g == GCD(n, d) IN [n |-> n \div g, d |-> d \div g]

RInt(k) == [n |-> k, d |-> 1]
RAdd(a, b) ==
    IF a.d = 0 \/ b.d = 0 THEN [n |-> 0, d |-> 0]
    ELSE R(a.n * b.d + b.n * a.d, a.d * b.d)
\* JavaScript a / k for an integer count k >= 0
RDiv(a, k) == IF a.d = 0 THEN a ELSE R(a.n, a.d * k)
RLess(a, b) == a.d # 0 /\ b.d # 0 /\ a.n * b.d < b.n * a.d
RGeq(a, b) == a.d # 0 /\ b.d # 0 /\ a.n * b.d >= b.n * a.d
IsFinite(a) == a.d # 0

RECURSIVE RSum(_)
RSum(s) == IF s = <<>> THEN RInt(0) ELSE RAdd(s[1], RSum(Tail(s)))

\* parseFloat(v) || 0
NumOr0(v) == IF v < 0 THEN 0 ELSE v

(***************************************************************************)
(* Period ids, names and the registry                                      *)
(***************************************************************************)
Id(pfx, num) == [pfx |-> pfx, num |-> num]
Name(tpl, n, sfx) == [tpl |-> tpl, n |-> n, sfx |-> sfx]
Period(id, name, type) == [id |-> id, name |-> name, type |-> type]

SubjectKey == Id("subject", NoNum)
CommentKey == Id("comment", NoNum)
MongoIdKey == Id("_id", NoNum)
MongoVKey == Id("__v", NoNum)

\* key.startsWith('exam'), key.startsWith('sem'), key.startsWith('p')
StartsWithExam(key) == key.pfx \in {"exam", "exam_"}
StartsWithSem(key) == key.pfx \in {"sem"}
StartsWithP(key) == key.pfx \in {"p", "period_"}

\* admin.js getOrdinalSuffix; i = NoNum stands for NaN, whose remainders are NaN
getOrdinalSuffix(i) ==
    IF i = NoNum THEN "th"
    ELSE LET j == i % 10
             k == i % 100
         IN IF j = 1 /\ k # 11 THEN "st"
            ELSE IF j = 2 /\ k # 12 THEN "nd"
            ELSE IF j = 3 /\ k # 13 THEN "rd"
            ELSE "th"

\* `${n}${getOrdinalSuffix(n)} Period`
OrdinalPeriodName(n) == Name("Period", n, getOrdinalSuffix(n))
\* `Exam ${n}`
ExamName(n) == Name("Exam", n, "")

getDefaultPeriods ==
    << Period(Id("p", 1), OrdinalPeriodName(1), "period"),
       Period(Id("p", 2), OrdinalPeriodName(2), "period"),
       Period(Id("p", 3), OrdinalPeriodName(3), "period"),
       Period(Id("exam", 1), Name("Semester", 1, "st"), "exam"),
       Period(Id("sem", 1), Name("Sem Avg", 1, "st"), "semester"),
       Period(Id("p", 4), OrdinalPeriodName(4), "period"),
       Period(Id("p", 5), OrdinalPeriodName(5), "period"),
       Period(Id("p", 6), OrdinalPeriodName(6), "period"),
       Period(Id("exam", 2), Name("Semester", 2, "nd"), "exam"),
       Period(Id("sem", 2), Name("Sem Avg", 2, "nd"), "semester") >>

IdsOf(reg) == {reg[k].id : k \in 1..Len(reg)}
CountType(reg, type) == Cardinality({k \in 1..Len(reg) : reg[k].type = type})

\* addPeriod without the collision test: the sequential id whatever the registry
addPeriodReg_NoFallback(reg, type, customName, now) ==
    LET count == CountType(reg, type) + 1
        id0 == IF type = "period" THEN Id("p", count) ELSE Id("exam", count)
        dflt == IF type = "period" THEN OrdinalPeriodName(count) ELSE ExamName(count)
        newName == IF customName = "" THEN dflt ELSE Name("custom", NoNum, customName)
    IN Append(reg, Period(id0, newName, type))

\* addPeriod: the id and name computed from the count of the kind, the
\* fallback id `${type}_${Date.now()}` on a collision, and the push
addPeriodReg(reg, type, customName, now) ==
    LET count == CountType(reg, type) + 1
        id0 == IF type = "period" THEN Id("p", count) ELSE Id("exam", count)
        dflt == IF type = "period" THEN OrdinalPeriodName(count) ELSE ExamName(count)
        newName == IF customName = "" THEN dflt ELSE Name("custom", NoNum, customName)
        newId == IF id0 \in IdsOf(reg)
                 THEN Id(IF type = "period" THEN "period_" ELSE "exam_", now)
                 ELSE id0
    IN Append(reg, Period(newId, newName, type))

\* removePeriod's guard
removeRejected(reg) == Len(reg) <= 1

\* removePeriod past its guard: activePeriods.filter(p => p.id !== periodId)
removePeriodReg(reg, periodId) == SelectSeq(reg, LAMBDA p : p.id # periodId)

(***************************************************************************)
(* Stored grade entries: { subject, comment?, <key>: <score>, ... }        *)
(***************************************************************************)
Cell(k, v) == [k |-> k, v |-> v]
Entry(subject, hasComment, comment, cells) ==
    [subject |-> subject, hasComment |-> hasComment, comment |-> comment, cells |-> cells]

\* the own keys of an entry in insertion order
EntryKeys(e) ==
    <<SubjectKey>> \o (IF e.hasComment THEN <<CommentKey>> ELSE <<>>)
                   \o [k \in 1..Len(e.cells) |-> e.cells[k].k]

\* entry[key] read where a score is expected
EntryGet(e, key) ==
    IF key = SubjectKey THEN (IF e.subject = "" THEN Missing ELSE Garbage)
    ELSE IF key = CommentKey /\ e.hasComment
         THEN (IF e.comment # "" THEN Garbage ELSE Missing)
    ELSE IF \E k \in 1..Len(e.cells) : e.cells[k].k = key
         THEN e.cells[CHOOSE k \in 1..Len(e.cells) : e.cells[k].k = key].v
    ELSE Missing

\* the keys setActivePeriodsFromGrades skips
ExcludedKeys(v) ==
    IF v = "A" THEN {SubjectKey} ELSE {SubjectKey, CommentKey, MongoIdKey, MongoVKey}

\* the name setActivePeriodsFromGrades gives a key
DerivedName(key) ==
    IF StartsWithP(key)
        THEN OrdinalPeriodName(IF key.pfx = "p" THEN key.num ELSE NoNum)
    ELSE IF key = Id("exam", 1) THEN Name("Semester", 1, "st")
    ELSE IF key = Id("sem", 1) THEN Name("Sem Avg", 1, "st")
    ELSE IF key = Id("exam", 2) THEN Name("Semester", 2, "nd")
    ELSE IF key = Id("sem", 2) THEN Name("Sem Avg", 2, "nd")
    ELSE IF StartsWithExam(key)
        THEN ExamName(IF key.pfx = "exam" THEN key.num ELSE NoNum)
    ELSE Name(key.pfx, key.num, "")

DerivedType(key) ==
    IF StartsWithExam(key) THEN "exam"
    ELSE IF StartsWithSem(key) THEN "semester" ELSE "period"

\* setActivePeriodsFromGrades without the fallback to the default periods
setActivePeriodsFromGrades_NoFallback(v, gradesData) ==
    LET keys == IF Len(gradesData) > 0
                THEN SelectSeq(EntryKeys(gradesData[1]), LAMBDA k : k \notin ExcludedKeys(v))
                ELSE <<>>
    IN [k \in 1..Len(keys) |->
          Period(keys[k], DerivedName(keys[k]), DerivedType(keys[k]))]

setActivePeriodsFromGrades(v, gradesData) ==
    LET keys == IF Len(gradesData) > 0
                THEN SelectSeq(EntryKeys(gradesData[1]), LAMBDA k : k \notin ExcludedKeys(v))
                ELSE <<>>
        derived == [k \in 1..Len(keys) |->
                      Period(keys[k], DerivedName(keys[k]), DerivedType(keys[k]))]
    IN IF Len(derived) = 0 THEN getDefaultPeriods ELSE derived

(***************************************************************************)
(* The admin form: grade inputs, collection and rendering                  *)
(***************************************************************************)
InputCell(v) == [v |-> v, d |-> v]

\* position of the first rendered column whose period has this id (0: none)
FirstIdx(reg, id) ==
    IF id \in IdsOf(reg) THEN CHOOSE k \in 1..Len(reg) :
                                  reg[k].id = id /\ \A m \in 1..(k - 1) : reg[m].id # id
    ELSE 0

\* document.getElementById(`sub${i}-${id}`)?.value, Missing when there is no
\* such input or it is empty; regDom is the registry the inputs were rendered for
DomValue(inp, regDom, i, id) ==
    IF i \in 1..Len(inp) /\ FirstIdx(regDom, id) # 0
    THEN inp[i][FirstIdx(regDom, id)].v
    ELSE Missing

\* the subject-name-group children per subject: 1 in variant A, 2 in variant B
ChildrenPerSubject(v) == IF v = "A" THEN 1 ELSE 2

\* collectCurrentGrades: variant A defaults to 90; variant B looks the comment
\* textarea up inside the name group, where it never is, and collects nothing
collectCurrentGrades(v, reg, subj, inp, regDom) ==
    IF v = "A"
    THEN [i \in 1..Len(subj) |->
            Entry(subj[i].name, FALSE, "",
                  [k \in 1..Len(reg) |->
                      LET raw == DomValue(inp, regDom, i, reg[k].id)
                      IN Cell(reg[k].id, IF raw <= 0 THEN 90 ELSE raw)])]
    ELSE <<>>

\* renderGradesSection: value = gradesData[i - 1]?.[period.id] || 90, written
\* into a type=number input (non-numeric text is sanitised to '')
renderGradesSection(reg, nSubjects, gradesData) ==
    [i \in 1..nSubjects |->
        [k \in 1..Len(reg) |->
            LET raw == IF i <= Len(gradesData)
                       THEN EntryGet(gradesData[i], reg[k].id) ELSE Missing
                value == IF raw = Missing \/ raw = 0 THEN 90 ELSE raw
            IN InputCell(IF value = Garbage THEN Missing ELSE value)]]

\* renderFormFromData: one subject group per entry (one blank entry if none)
FormData(gradesData) ==
    IF Len(gradesData) = 0 THEN <<Entry("", FALSE, "", <<>>)>> ELSE gradesData

FormSubjects(v, gradesData) ==
    [i \in 1..Len(FormData(gradesData)) |->
        [name |-> FormData(gradesData)[i].subject,
         comment |-> IF v = "B" /\ FormData(gradesData)[i].hasComment
                     THEN FormData(gradesData)[i].comment ELSE ""]]

(***************************************************************************)
(* calculateAndDisplayAverages                                             *)
(***************************************************************************)
Sem1Ids == {Id("p", 1), Id("p", 2), Id("p", 3), Id("exam", 1)}
Sem2Ids == {Id("p", 4), Id("p", 5), Id("p", 6), Id("exam", 2)}

\* const numSubjects = subjectNamesContainer.children.length || 1
AdminNumSubjects(v, subj) ==
    IF Len(subj) * ChildrenPerSubject(v) = 0 THEN 1 ELSE Len(subj) * ChildrenPerSubject(v)

RECURSIVE SumTo(_, _, _, _, _)
\* sum over subjects 1..n of parseFloat(input.value) || 0 for one period id
SumTo(inp, reg, id, n, acc) ==
    IF n = 0 THEN acc
    ELSE SumTo(inp, reg, id, n - 1,
               acc + (IF n <= Len(inp) THEN NumOr0(DomValue(inp, reg, n, id)) ELSE 0))

\* totals[id]: every registry entry with this id adds the column once more
AdminTotal(v, reg, subj, inp, id) ==
    Cardinality({k \in 1..Len(reg) : reg[k].id = id})
        * SumTo(inp, reg, id, AdminNumSubjects(v, subj), 0)

RECURSIVE SumTotals(_, _, _, _, _)
SumTotals(v, reg, subj, inp, ps) ==
    IF ps = <<>> THEN 0
    ELSE AdminTotal(v, reg, subj, inp, ps[1].id) + SumTotals(v, reg, subj, inp, Tail(ps))

\* (len > 0) ? (sum / numSubjects / len) : 0
AdminSemAvg(v, reg, subj, inp, semIds) ==
    LET ps == SelectSeq(reg, LAMBDA p : p.id \in semIds)
    IN IF Len(ps) > 0
       THEN RDiv(RDiv(RInt(SumTotals(v, reg, subj, inp, ps)), AdminNumSubjects(v, subj)), Len(ps))
       ELSE RInt(0)

\* const finalAvg = (sem1Avg + sem2Avg) / 2
AdminFinalAvg(sem1Avg, sem2Avg) == RDiv(RAdd(sem1Avg, sem2Avg), 2)

calculateAndDisplayAverages(v, reg, subj, inp) ==
    LET s1 == AdminSemAvg(v, reg, subj, inp, Sem1Ids)
        s2 == AdminSemAvg(v, reg, subj, inp, Sem2Ids)
    IN [period |-> [k \in 1..Len(reg) |->
                       RDiv(RInt(AdminTotal(v, reg, subj, inp, reg[k].id)),
                            AdminNumSubjects(v, subj))],
        sem1 |-> s1, sem2 |-> s2, final |-> AdminFinalAvg(s1, s2)]

(***************************************************************************)
(* Letter grades (thresholds of getLetterGrade, both copies)               *)
(***************************************************************************)
GradeA == 90
GradeB == 80
GradeC == 70
GradeD == 60

\* getLetterGrade with exclusive thresholds
getLetterGrade_Exclusive(score) ==
    IF RLess(RInt(GradeA), score) THEN "A"
    ELSE IF RLess(RInt(GradeB), score) THEN "B"
    ELSE IF RLess(RInt(GradeC), score) THEN "C"
    ELSE IF RLess(RInt(GradeD), score) THEN "D"
    ELSE "F"

\* src/script.js getLetterGrade (student view)
getLetterGrade(score) ==
    IF RGeq(score, RInt(GradeA)) THEN "A"
    ELSE IF RGeq(score, RInt(GradeB)) THEN "B"
    ELSE IF RGeq(score, RInt(GradeC)) THEN "C"
    ELSE IF RGeq(score, RInt(GradeD)) THEN "D"
    ELSE "F"

\* src/unnamed/part_000 getLetterGrade (dashboard)
DashGetLetterGrade(score) ==
    IF RGeq(score, RInt(90)) THEN "A"
    ELSE IF RGeq(score, RInt(80)) THEN "B"
    ELSE IF RGeq(score, RInt(70)) THEN "C"
    ELSE IF RGeq(score, RInt(60)) THEN "D"
    ELSE "F"

(***************************************************************************)
(* Dashboard (src/unnamed/part_000)                                        *)
(***************************************************************************)
\* the comparator of activePeriods.sort; a NaN result counts as 0.  Ids
\* without digits make it inconsistent; the inputs of the model all have digits
DashCompare(a, b) ==
    IF a.type # b.type THEN (IF a.type = "exam" THEN 1 ELSE 0 - 1)
    ELSE IF a.id.num = NoNum \/ b.id.num = NoNum THEN 0
    ELSE a.id.num - b.id.num

RECURSIVE SortInsert(_, _)
SortInsert(s, x) ==
    IF s = <<>> THEN <<x>>
    ELSE IF DashCompare(s[Len(s)], x) > 0
         THEN Append(SortInsert(SubSeq(s, 1, Len(s) - 1), x), s[Len(s)])
         ELSE Append(s, x)

RECURSIVE SortPeriods(_)
\* Array.prototype.sort: stable, ordered by the comparator
SortPeriods(s) ==
    IF s = <<>> THEN <<>>
    ELSE SortInsert(SortPeriods(SubSeq(s, 1, Len(s) - 1)), s[Len(s)])

RECURSIVE GroupLoop(_, _, _)
\* the for loop of groupPeriodsIntoSemesters: returns <<semesters, currentSemester>>
GroupLoop(ps, semesters, currentSemester) ==
    IF ps = <<>> THEN <<semesters, currentSemester>>
    ELSE LET cur == Append(currentSemester, ps[1])
         IN IF ps[1].type = "exam"
            THEN GroupLoop(Tail(ps), Append(semesters, cur), <<>>)
            ELSE GroupLoop(Tail(ps), semesters, cur)

\* groupPeriodsIntoSemesters never closing a group
groupPeriodsIntoSemesters_NoSplit(periods) == <<SortPeriods(periods)>>

\* groupPeriodsIntoSemesters closing a group after every period
groupPeriodsIntoSemesters_GroupPerPeriod(periods) ==
    LET sorted == SortPeriods(periods)
    IN IF Len(sorted) = 0 THEN << <<>> >> ELSE [k \in 1..Len(sorted) |-> <<sorted[k]>>]

groupPeriodsIntoSemesters(periods) ==
    LET sorted == SortPeriods(periods)
        res == GroupLoop(sorted, <<>>, <<>>)
        semesters == IF Len(res[2]) > 0 \/ Len(sorted) = 0
                     THEN Append(res[1], res[2]) ELSE res[1]
    IN IF Len(semesters) > 0 THEN semesters ELSE <<sorted>>

\* dashboard getOrdinalSuffix: '' for a falsy argument
DashOrdinalSuffix(i) ==
    IF i = NoNum \/ i = 0 THEN "" ELSE getOrdinalSuffix(i)

\* displayReportCard step 1: the periods derived from the first subject's keys
DashExcludedKeys == {SubjectKey, CommentKey, MongoIdKey}

DashDerivePeriods(grades) ==
    LET keys == SelectSeq(EntryKeys(grades[1]), LAMBDA k : k \notin DashExcludedKeys)
        num(k) == IF k.num = NoNum \/ k.num = 0 THEN NoNum ELSE k.num
    IN [k \in 1..Len(keys) |->
          IF StartsWithExam(keys[k])
          THEN Period(keys[k], ExamName(num(keys[k])), "exam")
          ELSE Period(keys[k],
                      Name("Period", num(keys[k]), DashOrdinalSuffix(num(keys[k]))),
                      "period")]

\* the mean without the test for an empty list
MeanOr0_Unguarded(rs) == RDiv(RSum(rs), Len(rs))

\* the mean reduce(...) / length, 0 for an empty list
MeanOr0(rs) == IF Len(rs) > 0 THEN RDiv(RSum(rs), Len(rs)) ELSE RInt(0)

RECURSIVE Flatten(_)
Flatten(ss) == IF ss = <<>> THEN <<>> ELSE ss[1] \o Flatten(Tail(ss))

SeqMin(s) == CHOOSE x \in {s[k] : k \in 1..Len(s)} : \A k \in 1..Len(s) : x <= s[k]
SeqMax(s) == CHOOSE x \in {s[k] : k \in 1..Len(s)} : \A k \in 1..Len(s) : x >= s[k]

\* buildTableBody's row without the maxScore !== minScore test
DashRow_NoDistinctTest(subjectGrade, semesters) ==
    LET flat == Flatten(semesters)
        allScores == SelectSeq([k \in 1..Len(flat) |-> EntryGet(subjectGrade, flat[k].id)],
                               LAMBDA v : v >= 0)
        minScore == IF Len(allScores) > 1 THEN SeqMin(allScores) ELSE 0 - 1
        maxScore == IF Len(allScores) > 1 THEN SeqMax(allScores) ELSE 0 - 1
        scores(sem) == [k \in 1..Len(sem) |-> NumOr0(EntryGet(subjectGrade, sem[k].id))]
        semAvgs == [m \in 1..Len(semesters) |->
                      MeanOr0([k \in 1..Len(semesters[m]) |-> RInt(scores(semesters[m])[k])])]
    IN [cells |-> [m \in 1..Len(semesters) |->
                     [k \in 1..Len(semesters[m]) |->
                        LET score == scores(semesters[m])[k]
                        IN [score |-> score,
                            failing |-> score < 60,
                            highest |-> score = maxScore,
                            lowest |-> score = minScore]]],
        semAvgs |-> semAvgs,
        final |-> MeanOr0(semAvgs)]

\* one row of buildTableBody
DashRow(subjectGrade, semesters) ==
    LET flat == Flatten(semesters)
        allScores == SelectSeq([k \in 1..Len(flat) |-> EntryGet(subjectGrade, flat[k].id)],
                               LAMBDA v : v >= 0)
        minScore == IF Len(allScores) > 1 THEN SeqMin(allScores) ELSE 0 - 1
        maxScore == IF Len(allScores) > 1 THEN SeqMax(allScores) ELSE 0 - 1
        scores(sem) == [k \in 1..Len(sem) |-> NumOr0(EntryGet(subjectGrade, sem[k].id))]
        semAvgs == [m \in 1..Len(semesters) |->
                      MeanOr0([k \in 1..Len(semesters[m]) |-> RInt(scores(semesters[m])[k])])]
    IN [cells |-> [m \in 1..Len(semesters) |->
                     [k \in 1..Len(semesters[m]) |->
                        LET score == scores(semesters[m])[k]
                        IN [score |-> score,
                            failing |-> score < 60,
                            highest |-> score = maxScore /\ maxScore # minScore,
                            lowest |-> score = minScore /\ maxScore # minScore]]],
        semAvgs |-> semAvgs,
        final |-> MeanOr0(semAvgs)]

buildTableBody(grades, semesters) ==
    [i \in 1..Len(grades) |-> DashRow(grades[i], semesters)]

RECURSIVE PeriodTotal(_, _)
\* grades.reduce((sum, current) => sum + (parseFloat(current[p.id]) || 0), 0)
PeriodTotal(grades, id) ==
    IF grades = <<>> THEN 0
    ELSE NumOr0(EntryGet(grades[1], id)) + PeriodTotal(Tail(grades), id)

buildTableFooter(grades, semesters) ==
    LET periodAvgs == [m \in 1..Len(semesters) |->
                         [k \in 1..Len(semesters[m]) |->
                            IF Len(grades) > 0
                            THEN RDiv(RInt(PeriodTotal(grades, semesters[m][k].id)), Len(grades))
                            ELSE RInt(0)]]
        semAvgs == [m \in 1..Len(semesters) |-> MeanOr0(periodAvgs[m])]
    IN [periodAvgs |-> periodAvgs, semAvgs |-> semAvgs, final |-> MeanOr0(semAvgs)]

\* displayReportCard past its empty-grades return
DashTable(grades) ==
    LET periods == DashDerivePeriods(grades)
        semesters == groupPeriodsIntoSemesters(periods)
        foot == buildTableFooter(grades, semesters)
    IN [kind |-> "dash", periods |-> periods, semesters |-> semesters,
        rows |-> buildTableBody(grades, semesters),
        foot |-> foot,
        overall |-> DashGetLetterGrade(foot.final)]

\* what an element shows that no script has written yet
Markup == "markup"

DashKinds == {"dash", "dashEmpty"}

\* displayReportCard appending to the table instead of replacing its content
displayReportCard_Appending(dom, grades) ==
    IF Len(grades) = 0
    THEN [kind |-> "dashEmpty",
          overall |-> IF dom.kind \in DashKinds THEN dom.overall ELSE Markup]
    ELSE IF dom.kind = "dash"
         THEN [DashTable(grades) EXCEPT !.rows = dom.rows \o @]
         ELSE DashTable(grades)

\* displayReportCard(studentData): the report section after the call, dom being
\* the section before it. With no grades the table is emptied and the function
\* returns: overall-grade and overall-comment keep what they showed
displayReportCard(dom, grades) ==
    IF Len(grades) = 0
    THEN [kind |-> "dashEmpty",
          overall |-> IF dom.kind \in DashKinds THEN dom.overall ELSE Markup]
    ELSE DashTable(grades)

(***************************************************************************)
(* Student view (src/script.js)                                            *)
(***************************************************************************)
\* null, shown as '-'
NullR == [n |-> 0, d |-> 0 - 1]
IsNull(a) == a.d < 0

\* calculateAvg counting every value passed, an invalid one as 0
calculateAvg_AllValues(values) ==
    RDiv(RSum([k \in 1..Len(values) |-> RInt(NumOr0(values[k]))]), Len(values))

\* calculateAvg without the division: the total of the valid values
calculateAvg_Total(values) ==
    LET validValues == SelectSeq(values, LAMBDA v : v >= 0)
    IN IF Len(validValues) = 0 THEN NullR
       ELSE RSum([k \in 1..Len(validValues) |-> RInt(validValues[k])])

\* calculateAvg(...values): the mean of the values that are numbers, else null
calculateAvg(values) ==
    LET validValues == SelectSeq(values, LAMBDA v : v >= 0)
    IN IF Len(validValues) = 0 THEN NullR
       ELSE RDiv(RSum([k \in 1..Len(validValues) |-> RInt(validValues[k])]),
                 Len(validValues))

Sem1Keys == <<Id("p", 1), Id("p", 2), Id("p", 3), Id("exam", 1)>>
Sem2Keys == <<Id("p", 4), Id("p", 5), Id("p", 6), Id("exam", 2)>>

\* let yearly = null; if (avg1 !== null && avg2 !== null) ... else if ...
Yearly(avg1, avg2) ==
    IF ~IsNull(avg1) /\ ~IsNull(avg2) THEN RDiv(RAdd(avg1, avg2), 2)
    ELSE IF ~IsNull(avg1) THEN avg1
    ELSE IF ~IsNull(avg2) THEN avg2
    ELSE NullR

StudentRow(grade) ==
    LET avg1 == calculateAvg([k \in 1..4 |-> EntryGet(grade, Sem1Keys[k])])
        avg2 == calculateAvg([k \in 1..4 |-> EntryGet(grade, Sem2Keys[k])])
        yearly == Yearly(avg1, avg2)
    IN [avg1 |-> avg1, avg2 |-> avg2, yearly |-> yearly,
        letter |-> IF IsNull(yearly) THEN "-" ELSE getLetterGrade(yearly)]

\* setFooter: colTotals[key] / colCounts[key] when colCounts[key] > 0, else '-'
FooterOf(vals) ==
    LET present == SelectSeq(vals, LAMBDA a : ~IsNull(a))
    IN IF Len(present) > 0 THEN RDiv(RSum(present), Len(present)) ELSE NullR

\* a score as addToTotal sees it: a number, or skipped (NaN)
ScoreR(v) == IF v >= 0 THEN RInt(v) ELSE NullR

\* renderGradeTable past its empty-grades return
StudentTable(grades) ==
    LET rows == [i \in 1..Len(grades) |-> StudentRow(grades[i])]
        col(key) == FooterOf([i \in 1..Len(grades) |-> ScoreR(EntryGet(grades[i], key))])
        yearlies == SelectSeq([i \in 1..Len(rows) |-> rows[i].yearly], LAMBDA a : ~IsNull(a))
        finalAvg == IF Len(yearlies) > 0 THEN RDiv(RSum(yearlies), Len(yearlies)) ELSE RInt(0)
    IN [kind |-> "student", rows |-> rows,
        footSem1 |-> [k \in 1..4 |-> col(Sem1Keys[k])],
        footSem2 |-> [k \in 1..4 |-> col(Sem2Keys[k])],
        footAvg1 |-> FooterOf([i \in 1..Len(rows) |-> rows[i].avg1]),
        footAvg2 |-> FooterOf([i \in 1..Len(rows) |-> rows[i].avg2]),
        footYearly |-> FooterOf([i \in 1..Len(rows) |-> rows[i].yearly]),
        finalAvg |-> finalAvg,
        badge |-> getLetterGrade(finalAvg)]

StudentKinds == {"student", "studentEmpty"}

\* renderGradeTable(grades): the report section after the call, dom being the
\* section before it. With no grades the body is emptied and the function
\* returns: the footer cells, final-percentage and the badge keep what they showed
renderGradeTable(dom, grades) ==
    IF Len(grades) = 0
    THEN IF dom.kind \in StudentKinds
         THEN [dom EXCEPT !.kind = "studentEmpty", !.rows = <<>>]
         ELSE [kind |-> "studentEmpty", rows |-> <<>>]
    ELSE StudentTable(grades)

(***************************************************************************)
(* Inputs of the admin page                                                *)
(***************************************************************************)
\* values Date.now() may return
Clock == {7, 8}
\* text typed into the new-period-name input ('' = none)
CustomNames == {"", "Quiz"}
\* values typed into a grade input
TypedScores == {0, 75}
\* an id no period of the page has
AbsentId == Id("p", 99)
\* the columns the user acts on: the first and the last period of the registry
ClickedColumns(n) == IF n = 0 THEN {} ELSE {1, n}
\* the periods whose remove button the user clicks
ReachableIds(reg) == {reg[k].id : k \in ClickedColumns(Len(reg))}

\* grades arrays of students the server holds (GET /api/students/:id)
StoredGrades ==
    { <<>>,
      << Entry("Math", FALSE, "", <<Cell(Id("p", 3), 100), Cell(Id("period_", 7), 0)>>) >>,
      << Entry("Math", TRUE, "ok", <<Cell(Id("p", 1), 90), Cell(Id("p", 2), 80),
                                     Cell(Id("p", 3), 70), Cell(Id("exam", 1), 60)>>) >>,
      << Entry("Math", FALSE, "", <<Cell(Id("p", 1), 100)>>),
         Entry("Art", FALSE, "", <<Cell(Id("p", 1), 0)>>) >>,
      << Entry("Math", FALSE, "", <<Cell(Id("exam", 1), Garbage)>>) >> }

(***************************************************************************)
(* Handlers of the admin page                                              *)
(***************************************************************************)
NoRequest == [method |-> "", ok |-> FALSE]

\* renderAllDynamicSections after the registry or the subject list changed:
\* the grade inputs are re-rendered from collectCurrentGrades, read from the
\* inputs still in the document (rendered for regDom)
RenderAll(reg, subj, regDom) ==
    /\ inputs' = renderGradesSection(reg, Len(subj),
                     collectCurrentGrades(variant, reg, subj, inputs, regDom))
    /\ avgs' = calculateAndDisplayAverages(variant, reg, subj, inputs')
    /\ rerendered' = TRUE

\* Initial page load: default registry, one blank subject
AdminInit ==
    /\ variant \in {"A", "B"}
    /\ activePeriods = getDefaultPeriods
    /\ subjects = FormSubjects(variant, <<>>)
    /\ inputs = renderGradesSection(getDefaultPeriods, 1, FormData(<<>>))
    /\ avgs = calculateAndDisplayAverages(variant, getDefaultPeriods, subjects, inputs)
    /\ readOnly = FALSE
    /\ cancelHidden = TRUE
    /\ alertMsg = ""
    /\ rerendered = TRUE
    /\ payload = <<>>
    /\ request = NoRequest
    /\ ops = 0

\* add-regular-period-btn / add-exam-period-btn -> addPeriod(type, customName)
AddPeriod(type, customName, now) ==
    /\ UNCHANGED <<calcVars, serverVars, pageVars, requestVars>>
    /\ ops < MaxOps
    /\ Len(activePeriods) < MaxPeriods
    /\ activePeriods' = addPeriodReg(activePeriods, type, customName, now)
    /\ RenderAll(activePeriods', subjects, activePeriods)
    /\ alertMsg' = ""
    /\ ops' = ops + 1
    /\ payload' = <<>>
    /\ request' = NoRequest
    /\ UNCHANGED <<variant, subjects, readOnly, cancelHidden>>

\* removePeriod(periodId)
RemovePeriod(periodId) ==
    /\ UNCHANGED <<calcVars, serverVars, pageVars, requestVars>>
    /\ ops < MaxOps
    /\ IF removeRejected(activePeriods)
       THEN /\ alertMsg' = "You must have at least one period."
            /\ rerendered' = FALSE
            /\ UNCHANGED <<activePeriods, inputs, avgs>>
       ELSE /\ activePeriods' = removePeriodReg(activePeriods, periodId)
            /\ RenderAll(activePeriods', subjects, activePeriods)
            /\ alertMsg' = ""
    /\ ops' = ops + 1
    /\ payload' = <<>>
    /\ request' = NoRequest
    /\ UNCHANGED <<variant, subjects, readOnly, cancelHidden>>

\* add-subject-btn: addSubjectInput(); renderGradesSection(); calculateAndDisplayAverages()
AddSubject ==
    /\ UNCHANGED <<calcVars, serverVars, pageVars, requestVars>>
    /\ ops < MaxOps
    /\ Len(subjects) < MaxSubjects
    /\ subjects' = Append(subjects, [name |-> "", comment |-> ""])
    /\ inputs' = renderGradesSection(activePeriods, Len(subjects'), <<>>)
    /\ avgs' = calculateAndDisplayAverages(variant, activePeriods, subjects', inputs')
    /\ rerendered' = TRUE
    /\ alertMsg' = ""
    /\ ops' = ops + 1
    /\ payload' = <<>>
    /\ request' = NoRequest
    /\ UNCHANGED <<variant, activePeriods, readOnly, cancelHidden>>

\* remove-subject-btn of subject k (the first subject has no such button)
RemoveSubject(k) ==
    /\ UNCHANGED <<calcVars, serverVars, pageVars, requestVars>>
    /\ ops < MaxOps
    /\ k \in 2..Len(subjects)
    /\ subjects' = [i \in 1..(Len(subjects) - 1) |->
                       IF i < k THEN subjects[i] ELSE subjects[i + 1]]
    /\ RenderAll(activePeriods, subjects', activePeriods)
    /\ alertMsg' = ""
    /\ ops' = ops + 1
    /\ payload' = <<>>
    /\ request' = NoRequest
    /\ UNCHANGED <<variant, activePeriods, readOnly, cancelHidden>>

\* the user types v into the grade input of subject i, column k ('input' event)
EditScore(i, k, v) ==
    /\ UNCHANGED <<calcVars, serverVars, pageVars, requestVars>>
    /\ ops < MaxOps
    /\ i \in 1..Len(inputs)
    /\ k \in 1..Len(inputs[i])
    /\ inputs' = [inputs EXCEPT ![i][k].v = v]
    /\ avgs' = calculateAndDisplayAverages(variant, activePeriods, subjects, inputs')
    /\ rerendered' = FALSE
    /\ alertMsg' = ""
    /\ ops' = ops + 1
    /\ payload' = <<>>
    /\ request' = NoRequest
    /\ UNCHANGED <<variant, activePeriods, subjects, readOnly, cancelHidden>>

\* the user types a name into the name input of the first subject, left blank
\* so far (no handler runs)
TypeName ==
    /\ UNCHANGED <<calcVars, serverVars, pageVars, requestVars>>
    /\ ops < MaxOps
    /\ subjects[1].name = ""
    /\ subjects' = [subjects EXCEPT ![1].name = "Math"]
    /\ rerendered' = FALSE
    /\ alertMsg' = ""
    /\ ops' = ops + 1
    /\ payload' = <<>>
    /\ request' = NoRequest
    /\ UNCHANGED <<variant, activePeriods, inputs, avgs, readOnly, cancelHidden>>

\* load-student-btn, the student was found
LoadStudent(grades) ==
    /\ UNCHANGED <<calcVars, serverVars, pageVars, requestVars>>
    /\ ops < MaxOps
    /\ activePeriods' = setActivePeriodsFromGrades(variant, grades)
    /\ subjects' = FormSubjects(variant, grades)
    /\ inputs' = renderGradesSection(activePeriods', Len(subjects'), FormData(grades))
    /\ avgs' = calculateAndDisplayAverages(variant, activePeriods', subjects', inputs')
    /\ readOnly' = TRUE
    /\ cancelHidden' = FALSE
    /\ rerendered' = TRUE
    /\ alertMsg' = ""
    /\ ops' = ops + 1
    /\ payload' = <<>>
    /\ request' = NoRequest
    /\ UNCHANGED variant

\* load-student-btn, no id entered or getStudent threw
LoadStudentFails ==
    /\ UNCHANGED <<calcVars, serverVars, pageVars, requestVars>>
    /\ ops < MaxOps
    /\ alertMsg' = "Student not found"
    /\ rerendered' = FALSE
    /\ ops' = ops + 1
    /\ payload' = <<>>
    /\ request' = NoRequest
    /\ UNCHANGED <<variant, activePeriods, subjects, inputs, avgs, readOnly,
                   cancelHidden>>

\* the cancel-edit click handler leaving the registry as it is
CancelLogic_KeepsRegistry ==
    /\ activePeriods' = activePeriods
    /\ subjects' = FormSubjects(variant, <<>>)
    /\ inputs' = renderGradesSection(activePeriods, 1, FormData(<<>>))
    /\ avgs' = calculateAndDisplayAverages(variant, activePeriods, subjects', inputs')
    /\ readOnly' = FALSE
    /\ cancelHidden' = TRUE
    /\ rerendered' = TRUE

\* the cancel-edit click handler
CancelLogic ==
    /\ activePeriods' = getDefaultPeriods
    /\ subjects' = FormSubjects(variant, <<>>)
    /\ inputs' = renderGradesSection(getDefaultPeriods, 1, FormData(<<>>))
    /\ avgs' = calculateAndDisplayAverages(variant, getDefaultPeriods, subjects', inputs')
    /\ readOnly' = FALSE
    /\ cancelHidden' = TRUE
    /\ rerendered' = TRUE

CancelEdit ==
    /\ UNCHANGED <<calcVars, serverVars, pageVars, requestVars>>
    /\ ops < MaxOps
    /\ ~cancelHidden
    /\ CancelLogic
    /\ alertMsg' = ""
    /\ ops' = ops + 1
    /\ payload' = <<>>
    /\ request' = NoRequest
    /\ UNCHANGED variant

\* the grades the submit handler collects: subjects with a non-blank name, one
\* entry per period id of the rendered average boxes, parseFloat(value) || 0
SubmitGrades(v, reg, subj, inp) ==
    LET named == SelectSeq([i \in 1..Len(subj) |-> i], LAMBDA i : subj[i].name # "")
        ids == SelectSeq([k \in 1..Len(reg) |-> k], LAMBDA k : FirstIdx(reg, reg[k].id) = k)
    IN [m \in 1..Len(named) |->
           Entry(subj[named[m]].name, v = "B", "",
                 [c \in 1..Len(ids) |->
                     Cell(reg[ids[c]].id, NumOr0(DomValue(inp, reg, named[m], reg[ids[c]].id)))])]

\* form submit; filled: name and id (and school name) entered; success: the
\* server answered with success (otherwise the request threw)
Submit(filled, success) ==
    /\ UNCHANGED <<calcVars, serverVars, pageVars, requestVars>>
    /\ ops < MaxOps
    /\ ops' = ops + 1
    /\ UNCHANGED variant
    /\ LET grades == SubmitGrades(variant, activePeriods, subjects, inputs)
       IN IF ~filled \/ Len(grades) = 0
          THEN /\ alertMsg' = ""
               /\ rerendered' = FALSE
               /\ payload' = <<>>
               /\ request' = NoRequest
               /\ UNCHANGED <<activePeriods, subjects, inputs, avgs, readOnly,
                              cancelHidden>>
          ELSE /\ payload' = grades
               /\ request' = [method |-> IF readOnly THEN "PUT" ELSE "POST", ok |-> success]
               /\ IF ~success
                  THEN /\ alertMsg' = ""
                       /\ rerendered' = FALSE
                       /\ UNCHANGED <<activePeriods, subjects, inputs, avgs, readOnly,
                                      cancelHidden>>
                  ELSE /\ alertMsg' = ""
                       /\ IF ~cancelHidden
                          THEN CancelLogic
                          ELSE \* adminForm.reset(); window.activePeriods = ... leaves the
                               \* script's let binding alone; window.renderAllDynamicSections()
                               /\ inputs' = renderGradesSection(activePeriods, Len(subjects),
                                     collectCurrentGrades(variant, activePeriods, subjects,
                                         [i \in 1..Len(inputs) |->
                                            [k \in 1..Len(inputs[i]) |->
                                               InputCell(inputs[i][k].d)]],
                                         activePeriods))
                               /\ avgs' = calculateAndDisplayAverages(variant, activePeriods,
                                                                      subjects, inputs')
                               /\ rerendered' = TRUE
                               /\ UNCHANGED <<activePeriods, subjects, readOnly, cancelHidden>>

\* delete-student-btn (visible in edit mode only), the confirm accepted;
\* success: the server answered with success (otherwise it did not, or threw)
DeleteReportCard(success) ==
    /\ UNCHANGED <<calcVars, serverVars, pageVars, requestVars>>
    /\ ops < MaxOps
    /\ ~cancelHidden
    /\ ops' = ops + 1
    /\ payload' = <<>>
    /\ request' = [method |-> "DELETE", ok |-> success]
    /\ alertMsg' = ""
    /\ UNCHANGED variant
    /\ IF success
       THEN CancelLogic
       ELSE /\ rerendered' = FALSE
            /\ UNCHANGED <<activePeriods, subjects, inputs, avgs, readOnly, cancelHidden>>

\* a click on a remove-period button, or a call with an id no period has
ClickRemovePeriod ==
    \E periodId \in ReachableIds(activePeriods) \cup {AbsentId} : RemovePeriod(periodId)

\* a score typed into a grade input of the first or the last column
TypeScore ==
    \E i \in 1..MaxSubjects, k \in ClickedColumns(Len(activePeriods)), v \in TypedScores :
        EditScore(i, k, v)

\* the values of Date.now() that addPeriod(type) can tell apart: all of them
\* when it falls back to the timestamp id, one of them when it does not read it
ClockRead(type) ==
    IF \A now \in Clock : addPeriodReg(activePeriods, type, "", now)
                              = addPeriodReg(activePeriods, type, "", 0)
    THEN {CHOOSE now \in Clock : TRUE}
    ELSE Clock

ClickAddPeriod ==
    \E type \in {"period", "exam"}, customName \in CustomNames :
        \E now \in ClockRead(type) : AddPeriod(type, customName, now)

ClickSubmit ==
    \/ Submit(FALSE, FALSE)
    \/ \E success \in BOOLEAN : Submit(TRUE, success)

Next ==
    \/ ClickAddPeriod
    \/ ClickRemovePeriod
    \/ AddSubject
    \/ \E k \in 1..MaxSubjects : RemoveSubject(k)
    \/ TypeScore
    \/ TypeName
    \/ \E grades \in StoredGrades : LoadStudent(grades)
    \/ LoadStudentFails
    \/ CancelEdit
    \/ ClickSubmit
    \/ \E success \in BOOLEAN : DeleteReportCard(success)

vars == <<adminVars, calcVars, serverVars, pageVars, requestVars>>

(***************************************************************************)
(* Server (src/server.js): the student endpoints                           *)
(***************************************************************************)
\* _id values of students
StudentIds == {"s1", "s2"}
\* req.user of the callers verifyToken lets through; super: the token's email
\* is one of SUPER_ADMINS
Callers == { [uid |-> "u1", super |-> FALSE],
             [uid |-> "u2", super |-> FALSE],
             [uid |-> "u0", super |-> TRUE] }
\* what a request body holds for name (standing for every updatable field)
BodyNames == {"Ann", "Bob"}
\* a sponsorId a request body may carry; the handlers never read it
BodySponsors == {"", "u1", "u2"}

\* no document with this _id
NoDoc == [exists |-> FALSE]
Doc(name, sponsorId) == [exists |-> TRUE, name |-> name, sponsorId |-> sponsorId]

\* no request handled yet, empty collection
ServerIdle ==
    /\ students = [id \in StudentIds |-> NoDoc]
    /\ response = [op |-> "none"]

\* Student.find({ sponsorId: uid }): the _ids of the documents found
FindBySponsor(coll, uid) ==
    {id \in StudentIds : coll[id].exists /\ coll[id].sponsorId = uid}

\* GET /api/students
GetStudents(caller) ==
    /\ response' = [op |-> "list", caller |-> caller, status |-> 200,
                    found |-> FindBySponsor(students, caller.uid)]
    /\ UNCHANGED students

\* POST /api/students
PostStudent(caller, id, name) ==
    IF students[id].exists
    THEN /\ response' = [op |-> "post", caller |-> caller, id |-> id, status |-> 409]
         /\ UNCHANGED students
    ELSE /\ students' = [students EXCEPT ![id] = Doc(name, caller.uid)]
         /\ response' = [op |-> "post", caller |-> caller, id |-> id, status |-> 201]

\* whether the query of PUT / DELETE matches the document: { _id } for a super
\* admin, { _id, sponsorId: uid } for everybody else
QueryMatches(coll, caller, id) ==
    /\ coll[id].exists
    /\ caller.super \/ coll[id].sponsorId = caller.uid

\* PUT without the sponsorId in the query
PutStudent_Unscoped(caller, id, name, bodySponsor) ==
    IF students[id].exists
    THEN /\ students' = [students EXCEPT ![id] =
                            Doc(name, IF caller.super THEN @.sponsorId ELSE caller.uid)]
         /\ response' = [op |-> "put", caller |-> caller, id |-> id, status |-> 200]
    ELSE /\ response' = [op |-> "put", caller |-> caller, id |-> id, status |-> 404]
         /\ UNCHANGED students

\* PUT /api/students/:id; updateData takes name, ... from the body and, for a
\* caller who is no super admin, sponsorId: uid
PutStudent(caller, id, name, bodySponsor) ==
    IF QueryMatches(students, caller, id)
    THEN /\ students' = [students EXCEPT ![id] =
                            Doc(name, IF caller.super THEN @.sponsorId ELSE caller.uid)]
         /\ response' = [op |-> "put", caller |-> caller, id |-> id, status |-> 200]
    ELSE /\ response' = [op |-> "put", caller |-> caller, id |-> id, status |-> 404]
         /\ UNCHANGED students

\* DELETE /api/students/:id
DeleteStudent(caller, id) ==
    IF QueryMatches(students, caller, id)
    THEN /\ students' = [students EXCEPT ![id] = NoDoc]
         /\ response' = [op |-> "delete", caller |-> caller, id |-> id, status |-> 200]
    ELSE /\ response' = [op |-> "delete", caller |-> caller, id |-> id, status |-> 404]
         /\ UNCHANGED students

ServerGet ==
    /\ \E caller \in Callers : GetStudents(caller)
    /\ UNCHANGED <<adminVars, calcVars, pageVars, requestVars>>

ServerPost ==
    /\ \E caller \in Callers, id \in StudentIds, name \in BodyNames :
          PostStudent(caller, id, name)
    /\ UNCHANGED <<adminVars, calcVars, pageVars, requestVars>>

ServerPut ==
    /\ \E caller \in Callers, id \in StudentIds, name \in BodyNames,
           bodySponsor \in BodySponsors : PutStudent(caller, id, name, bodySponsor)
    /\ UNCHANGED <<adminVars, calcVars, pageVars, requestVars>>

ServerDelete ==
    /\ \E caller \in Callers, id \in StudentIds : DeleteStudent(caller, id)
    /\ UNCHANGED <<adminVars, calcVars, pageVars, requestVars>>

ServerNext == ServerGet \/ ServerPost \/ ServerPut \/ ServerDelete

(***************************************************************************)
(* The create and delete handlers, one step per await, so that several     *)
(* requests can be in progress at once.  Every await on the database can   *)
(* reject, which the handlers' catch blocks answer with 500.               *)
(***************************************************************************)
Requests == 1..MaxRequests

\* a request that has not arrived yet
NoHandler == [op |-> "none", pc |-> "idle", caller |-> [uid |-> "", super |-> FALSE],
              id |-> "", name |-> "", status |-> 0, stored |-> FALSE,
              fault |-> FALSE]

RequestsIdle ==
    /\ handlers = [r \in Requests |-> NoHandler]
    /\ logs = <<>>

\* res.status(code).json(...): the handler is through
Answer(r, code, fault) ==
    handlers' = [handlers EXCEPT ![r].pc = "done", ![r].status = code,
                                 ![r].fault = fault]

\* POST /api/students arrives with a token verifyToken accepts
StartPost(r, caller, id, name) ==
    /\ UNCHANGED <<adminVars, calcVars, pageVars, response, served>>
    /\ handlers[r].pc = "idle"
    /\ \A q \in 1..(r - 1) : handlers[q].pc # "idle"
    /\ handlers' = [handlers EXCEPT ![r] =
                       [NoHandler EXCEPT !.op = "post", !.pc = "check",
                                         !.caller = caller, !.id = id, !.name = name]]
    /\ UNCHANGED <<students, logs>>

\* await Student.findById(id) and the 409 answer
PostCheck(r, ok) ==
    /\ UNCHANGED <<adminVars, calcVars, pageVars, response, served>>
    /\ handlers[r].op = "post" /\ handlers[r].pc = "check"
    /\ UNCHANGED <<students, logs>>
    /\ IF ~ok THEN Answer(r, 500, TRUE)
       ELSE IF students[handlers[r].id].exists THEN Answer(r, 409, FALSE)
       ELSE handlers' = [handlers EXCEPT ![r].pc = "save"]

\* await newStudent.save(): an insert, which the unique _id makes fail when
\* a document with that _id is there
PostSave(r, ok) ==
    /\ UNCHANGED <<adminVars, calcVars, pageVars, response, served>>
    /\ handlers[r].op = "post" /\ handlers[r].pc = "save"
    /\ UNCHANGED logs
    /\ IF ~ok THEN Answer(r, 500, TRUE) /\ UNCHANGED students
       ELSE IF students[handlers[r].id].exists
       THEN Answer(r, 500, FALSE) /\ UNCHANGED students
       ELSE /\ students' = [students EXCEPT ![handlers[r].id] =
                               Doc(handlers[r].name, handlers[r].caller.uid)]
            /\ handlers' = [handlers EXCEPT ![r].pc = "log", ![r].stored = TRUE]

\* await Log.create({ action: 'ADD_STUDENT', ... }) and the 201 answer
PostLog(r, ok) ==
    /\ UNCHANGED <<adminVars, calcVars, pageVars, response, served>>
    /\ handlers[r].op = "post" /\ handlers[r].pc = "log"
    /\ UNCHANGED students
    /\ IF ~ok THEN Answer(r, 500, TRUE) /\ UNCHANGED logs
       ELSE /\ logs' = Append(logs, [action |-> "ADD_STUDENT", request |-> r])
            /\ Answer(r, 201, FALSE)

\* DELETE /api/students/:id arrives with a token verifyToken accepts
StartDelete(r, caller, id) ==
    /\ UNCHANGED <<adminVars, calcVars, pageVars, response, served>>
    /\ handlers[r].pc = "idle"
    /\ \A q \in 1..(r - 1) : handlers[q].pc # "idle"
    /\ handlers' = [handlers EXCEPT ![r] =
                       [NoHandler EXCEPT !.op = "delete", !.pc = "find",
                                         !.caller = caller, !.id = id]]
    /\ UNCHANGED <<students, logs>>

\* await Student.findOneAndDelete(query) and the 404 answer
DeleteFind(r, ok) ==
    /\ UNCHANGED <<adminVars, calcVars, pageVars, response, served>>
    /\ handlers[r].op = "delete" /\ handlers[r].pc = "find"
    /\ UNCHANGED logs
    /\ IF ~ok THEN Answer(r, 500, TRUE) /\ UNCHANGED students
       ELSE IF ~QueryMatches(students, handlers[r].caller, handlers[r].id)
       THEN Answer(r, 404, FALSE) /\ UNCHANGED students
       ELSE /\ students' = [students EXCEPT ![handlers[r].id] = NoDoc]
            /\ handlers' = [handlers EXCEPT ![r].pc = "log", ![r].stored = TRUE]

\* await Log.create({ action: 'DELETE_STUDENT', ... }) and the answer
DeleteLog(r, ok) ==
    /\ UNCHANGED <<adminVars, calcVars, pageVars, response, served>>
    /\ handlers[r].op = "delete" /\ handlers[r].pc = "log"
    /\ UNCHANGED students
    /\ IF ~ok THEN Answer(r, 500, TRUE) /\ UNCHANGED logs
       ELSE /\ logs' = Append(logs, [action |-> "DELETE_STUDENT", request |-> r])
            /\ Answer(r, 200, FALSE)

RequestsNext ==
    \E r \in Requests :
        \/ \E caller \in Callers, id \in StudentIds, name \in BodyNames :
              StartPost(r, caller, id, name)
        \/ \E ok \in BOOLEAN : PostCheck(r, ok)
        \/ \E ok \in BOOLEAN : PostSave(r, ok)
        \/ \E ok \in BOOLEAN : PostLog(r, ok)
        \/ \E caller \in Callers, id \in StudentIds : StartDelete(r, caller, id)
        \/ \E ok \in BOOLEAN : DeleteFind(r, ok)
        \/ \E ok \in BOOLEAN : DeleteLog(r, ok)

(***************************************************************************)
(* The routes of server.js: whether verifyToken stands before the handler, *)
(* and what the handler does to the stores, the auth service and the       *)
(* mailer, in the order of its code.  "superadmin?" is the handler's       *)
(* SUPER_ADMINS check, "params?" its 400 check of the request.             *)
(***************************************************************************)
SuperRoutes ==
    {"GET /api/admin/students", "GET /api/logs", "DELETE /api/logs",
     "GET /api/instructors", "POST /api/instructors/:uid/status",
     "POST /api/instructors/:uid/reset-password", "GET /api/backup",
     "POST /api/restore"}

TokenRoutes ==
    SuperRoutes \cup
    {"GET /api/students", "POST /api/students", "PUT /api/students/:id",
     "DELETE /api/students/:id", "GET /api/settings", "PUT /api/settings",
     "GET /api/auth/is-superadmin", "POST /api/activity"}

PublicRoutes == {"GET /api/students/:id", "POST /api/student/activity"}

Routes == TokenRoutes \cup PublicRoutes

Handler(route) ==
    CASE route = "GET /api/admin/students" -> <<"superadmin?", "read Student">>
      [] route = "GET /api/logs" -> <<"superadmin?", "read Log">>
      [] route = "DELETE /api/logs" ->
            <<"superadmin?", "params?", "mutate Log", "log">>
      [] route = "GET /api/instructors" -> <<"superadmin?", "read Log", "read Auth">>
      [] route = "POST /api/instructors/:uid/status" ->
            <<"superadmin?", "mutate Auth", "mutate Auth", "log">>
      [] route = "POST /api/instructors/:uid/reset-password" ->
            <<"superadmin?", "read Auth", "mutate Auth", "email", "log">>
      [] route = "GET /api/backup" ->
            <<"superadmin?", "read Student", "read Settings", "read Log">>
      [] route = "POST /api/restore" ->
            <<"superadmin?", "params?", "mutate Student", "mutate Settings">>
      [] route = "GET /api/students" -> <<"read Student">>
      [] route = "POST /api/students" -> <<"read Student", "mutate Student", "log">>
      [] route = "PUT /api/students/:id" -> <<"mutate Student", "log">>
      [] route = "DELETE /api/students/:id" -> <<"mutate Student", "log">>
      [] route = "GET /api/settings" -> <<"read Settings">>
      [] route = "PUT /api/settings" -> <<"mutate Settings">>
      [] route = "GET /api/auth/is-superadmin" -> <<>>
      [] route = "POST /api/activity" -> <<"log">>
      [] route = "GET /api/students/:id" -> <<"read Student">>
      [] route = "POST /api/student/activity" -> <<"log">>

\* the Authorization header of a request: none; one that does not start with
\* "Bearer "; a Bearer token verifyIdToken rejects; and tokens it accepts, of
\* a user without email, of an instructor, of one of SUPER_ADMINS
Headers == {"none", "basic", "invalid", "anon", "user", "super"}

\* verifyToken: the status it answers with, or 0 when it calls next()
verifyToken(header) ==
    IF header \in {"none", "basic"} THEN 401
    ELSE IF header = "invalid" THEN 403
    ELSE 0

\* the check without SUPER_ADMINS.includes
isSuperAdmin_AnyEmail(header) == header \in {"user", "super"}

\* req.user.email && SUPER_ADMINS.includes(req.user.email)
isSuperAdmin(header) == header = "super"

\* the handler's steps from `steps` on, after the effects `done`: badParams is
\* whether the request lacks what "params?" asks for, failAt the number of
\* effects after which an await rejects and the catch block answers 500
RECURSIVE RunHandler(_, _, _, _, _)
RunHandler(steps, header, badParams, failAt, done) ==
    IF steps = <<>> THEN [status |-> 200, effects |-> done]
    ELSE IF Head(steps) = "superadmin?"
    THEN IF isSuperAdmin(header)
         THEN RunHandler(Tail(steps), header, badParams, failAt, done)
         ELSE [status |-> 403, effects |-> done]
    ELSE IF Head(steps) = "params?"
    THEN IF badParams THEN [status |-> 400, effects |-> done]
         ELSE RunHandler(Tail(steps), header, badParams, failAt, done)
    ELSE IF Len(done) = failAt THEN [status |-> 500, effects |-> done]
    ELSE RunHandler(Tail(steps), header, badParams, failAt, Append(done, Head(steps)))

NoServed == [route |-> "", header |-> "none", status |-> 0, ran |-> FALSE,
             effects |-> <<>>]

RoutesIdle == served = NoServed

\* one request, from the first middleware of its route to the answer
Serve(route, header, badParams, failAt) ==
    /\ UNCHANGED <<adminVars, calcVars, serverVars, pageVars, handlers, logs>>
    /\ IF route \in TokenRoutes /\ verifyToken(header) # 0
       THEN served' = [route |-> route, header |-> header,
                       status |-> verifyToken(header), ran |-> FALSE,
                       effects |-> <<>>]
       ELSE LET out == RunHandler(Handler(route), header, badParams, failAt, <<>>)
            IN  served' = [route |-> route, header |-> header,
                           status |-> out.status, ran |-> TRUE,
                           effects |-> out.effects]

RoutesNext ==
    \E route \in Routes, header \in Headers, badParams \in BOOLEAN :
        \E failAt \in 0..Len(Handler(route)) : Serve(route, header, badParams, failAt)

(***************************************************************************)
(* The login pages: the student view (script.js) and the dashboard         *)
(* (part_000).  A login attempt is suspended at its fetch; everything a    *)
(* handler does between two awaits is one step.                            *)
(***************************************************************************)
Pages == {"student", "dashboard"}

\* let currentStudentData = null
NoStudent == [id |-> "", name |-> ""]

EnteredNames == {"", "ann", "ANN", "Bob"}
EnteredIds == {"", "s1"}
StoredNames == {"Ann", "Bob"}

\* String.prototype.toLowerCase on the names of the model
toLowerCase(s) ==
    CASE s \in {"Ann", "ANN", "ann"} -> "ann"
      [] s \in {"Bob", "BOB", "bob"} -> "bob"
      [] OTHER -> s

TimerIds == 1..MaxTimeouts

NoEvent == [kind |-> "none", name |-> "", id |-> "", fetched |-> FALSE,
            student |-> NoStudent]

\* what GET /api/students/:id can answer: no student (or no answer at all),
\* or the student stored under that id, whatever their name
FetchResults(id) ==
    {NoStudent} \cup (IF id = "" THEN {}
                      ELSE { [id |-> id, name |-> n] : n \in StoredNames })

\* resetInactivityTimer without its clearTimeout
resetInactivityTimer_NoClear(pending, handle, sec) ==
    IF sec = "report"
    THEN LET t == CHOOSE x \in TimerIds : x \notin pending \cup {handle}
         IN  [timeouts |-> pending \cup {t}, handle |-> t]
    ELSE [timeouts |-> pending, handle |-> handle]

\* resetInactivityTimer: the timeouts pending and the handle kept afterwards
resetInactivityTimer(pending, handle, sec) ==
    LET cleared == pending \ {handle}
    IN  IF sec = "report"
        THEN LET t == CHOOSE x \in TimerIds : x \notin pending \cup {handle}
             IN  [timeouts |-> cleared \cup {t}, handle |-> t]
        ELSE [timeouts |-> cleared, handle |-> handle]

\* setTimeout can hand out an id the model has not in use
TimerFree == TimerIds \ (timeouts \cup {inactivityTimer}) # {}

PageStart ==
    /\ page \in Pages
    /\ section = "login"
    /\ currentStudentData = NoStudent
    /\ inactivityTimer = 0
    /\ timeouts = {}
    /\ sessionModal = FALSE
    /\ errorMessage = FALSE
    /\ loadingSpinner = FALSE
    /\ submitDisabled = FALSE
    /\ logins = {}
    /\ event = NoEvent

\* no login page is open
PageIdle == PageStart /\ page = "student"

\* the submit handler up to its fetch
SubmitLogin(name, id) ==
    /\ UNCHANGED <<adminVars, calcVars, serverVars, requestVars>>
    /\ section = "login"
    /\ event' = [NoEvent EXCEPT !.kind = "submit", !.name = name, !.id = id]
    /\ UNCHANGED <<page, section, currentStudentData, inactivityTimer, timeouts,
                   sessionModal>>
    /\ IF page = "student"
       THEN /\ ~submitDisabled
            /\ IF name = "" \/ id = ""
               THEN /\ errorMessage' = TRUE
                    /\ UNCHANGED <<loadingSpinner, submitDisabled, logins>>
               ELSE /\ errorMessage' = FALSE
                    /\ loadingSpinner' = TRUE
                    /\ submitDisabled' = TRUE
                    /\ logins' = logins \cup {[name |-> name, id |-> id]}
       ELSE /\ Cardinality(logins \cup {[name |-> name, id |-> id]}) <= MaxLogins
            /\ logins' = logins \cup {[name |-> name, id |-> id]}
            /\ UNCHANGED <<errorMessage, loadingSpinner, submitDisabled>>

\* the submit handler from the answer of its fetch on
ResolveLogin(l, res) ==
    /\ UNCHANGED <<adminVars, calcVars, serverVars, requestVars>>
    /\ l \in logins
    /\ logins' = logins \ {l}
    /\ event' = [kind |-> "resolved", name |-> l.name, id |-> l.id,
                 fetched |-> res # NoStudent, student |-> res]
    /\ UNCHANGED <<page, sessionModal>>
    /\ LET ok == res # NoStudent /\ toLowerCase(res.name) = toLowerCase(l.name)
       IN  IF page = "student"
           THEN /\ loadingSpinner' = FALSE
                /\ submitDisabled' = FALSE
                /\ IF ok
                   THEN /\ TimerFree
                        /\ currentStudentData' = res
                        /\ section' = "report"
                        /\ LET r == resetInactivityTimer(timeouts, inactivityTimer, "report")
                           IN  timeouts' = r.timeouts /\ inactivityTimer' = r.handle
                        /\ UNCHANGED errorMessage
                   ELSE /\ errorMessage' = TRUE
                        /\ UNCHANGED <<currentStudentData, section, timeouts,
                                       inactivityTimer>>
           ELSE /\ UNCHANGED <<loadingSpinner, submitDisabled, timeouts, inactivityTimer>>
                /\ IF ok
                   THEN /\ currentStudentData' = res
                        /\ section' = "report"
                        /\ errorMessage' = FALSE
                   ELSE /\ errorMessage' = TRUE
                        /\ UNCHANGED <<currentStudentData, section>>

\* a mousemove, mousedown, keypress, scroll or touchstart on the student view
Activity ==
    /\ UNCHANGED <<adminVars, calcVars, serverVars, requestVars>>
    /\ page = "student"
    /\ section = "report" => TimerFree
    /\ LET r == resetInactivityTimer(timeouts, inactivityTimer, section)
       IN  timeouts' = r.timeouts /\ inactivityTimer' = r.handle
    /\ event' = [NoEvent EXCEPT !.kind = "activity"]
    /\ UNCHANGED <<page, section, currentStudentData, sessionModal, errorMessage,
                   loadingSpinner, submitDisabled, logins>>

\* window.logout / the logout-btn click handler, on what they change
logout ==
    /\ timeouts' = timeouts \ {inactivityTimer}
    /\ currentStudentData' = NoStudent
    /\ section' = "login"
    /\ UNCHANGED <<page, inactivityTimer, errorMessage, loadingSpinner,
                   submitDisabled, logins>>

\* the logout button of the report section
ClickLogout ==
    /\ UNCHANGED <<adminVars, calcVars, serverVars, requestVars>>
    /\ section = "report"
    /\ logout
    /\ event' = [NoEvent EXCEPT !.kind = "logout"]
    /\ UNCHANGED sessionModal

\* the callback of a pending inactivity timeout
TimerFires(t) ==
    /\ UNCHANGED <<adminVars, calcVars, serverVars, requestVars>>
    /\ t \in timeouts
    /\ timeouts' = timeouts \ {t, inactivityTimer}
    /\ currentStudentData' = NoStudent
    /\ section' = "login"
    /\ sessionModal' = TRUE
    /\ event' = [NoEvent EXCEPT !.kind = "expired"]
    /\ UNCHANGED <<page, inactivityTimer, errorMessage, loadingSpinner,
                   submitDisabled, logins>>

\* the session-expired-btn click handler
DismissModal ==
    /\ UNCHANGED <<adminVars, calcVars, serverVars, requestVars>>
    /\ sessionModal
    /\ sessionModal' = FALSE
    /\ event' = [NoEvent EXCEPT !.kind = "dismiss"]
    /\ UNCHANGED <<page, section, currentStudentData, inactivityTimer, timeouts,
                   errorMessage, loadingSpinner, submitDisabled, logins>>

PageNext ==
    \/ \E name \in EnteredNames, id \in EnteredIds : SubmitLogin(name, id)
    \/ \E l \in logins : \E res \in FetchResults(l.id) : ResolveLogin(l, res)
    \/ Activity
    \/ ClickLogout
    \/ \E t \in timeouts : TimerFires(t)
    \/ DismissModal

\* no function application is in progress on the admin page
CalcIdle ==
    /\ cKind = "none"
    /\ cGrades = <<>>
    /\ cPeriods = <<>>
    /\ cScore = 0
    /\ cOut = [kind |-> "none"]
    /\ cAgain = FALSE

Init == AdminInit /\ CalcIdle /\ ServerIdle /\ PageIdle /\ RequestsIdle /\ RoutesIdle

Spec == Init /\ [][Next]_vars

(***************************************************************************)
(* Function application: the views computed from one drawn input           *)
(***************************************************************************)
MaxCalcSubjects == 2
MaxGroupLen == 3
MaxScoreCents == 10000

\* scores a stored entry may hold
CalcScores == {Missing, Garbage, 0, 100}

\* key lists of the first subject's entry
CalcKeyLists ==
    { <<Id("p", 1), Id("exam", 1)>>,
      <<Id("p", 1), Id("p", 4)>>,
      <<Id("exam", 1), Id("p", 4)>>,
      <<Id("exam", 1), Id("exam", 2)>> }

SubjectNames == <<"Math", "Art", "Music", "History">>

\* the grades array with these keys and these scores
GradesOf(keys, scores) ==
    [i \in 1..Len(scores) |->
        Entry(SubjectNames[i], FALSE, "",
              [k \in 1..Len(keys) |-> Cell(keys[k], scores[i][k])])]

EightKeys == <<Id("p", 1), Id("p", 2), Id("p", 3), Id("exam", 1),
               Id("p", 4), Id("p", 5), Id("p", 6), Id("exam", 2)>>

MathExample == GradesOf(SubSeq(EightKeys, 1, 4), << <<90, 80, 70, 60>> >>)

\* an entry as the admin form submits it: subject, comment and one key per period
SubmittedExample ==
    << Entry("Math", TRUE, "Good",
             <<Cell(Id("p", 1), 90), Cell(Id("exam", 1), 80), Cell(Id("sem", 1), 85)>>) >>

\* an entry that holds a subject and a comment and no score yet
CommentOnlyExample == << Entry("Math", TRUE, "Good", <<>>) >>

CalcGrades ==
    { GradesOf(keys, scores) :
        keys \in CalcKeyLists,
        scores \in UNION { [1..n -> [1..2 -> CalcScores]] : n \in 0..MaxCalcSubjects } }
    \cup { MathExample, SubmittedExample, CommentOnlyExample,
           GradesOf(EightKeys, << <<90, 80, 70, 60, 100, 0, 50, 70>> >>),
           GradesOf(<<>>, << <<>> >>),
           GradesOf(<<>>, << <<>>, <<>> >>) }

\* the periods displayReportCard derives from an entry with these keys
PeriodsOfKeys(keys) == DashDerivePeriods(GradesOf(keys, << [k \in 1..Len(keys) |-> 0] >>))

GroupPool == {Id("p", 1), Id("p", 2), Id("p", 3), Id("exam", 1), Id("exam", 2)}

\* lists of distinct keys of length up to n
RECURSIVE KeyListsUpTo(_)
KeyListsUpTo(n) ==
    IF n = 0 THEN {<<>>}
    ELSE LET shorter == KeyListsUpTo(n - 1)
         IN shorter \cup { Append(l, k) : l \in {x \in shorter : Len(x) = n - 1},
                                          k \in GroupPool }

CalcPeriodLists ==
    { PeriodsOfKeys(l) : l \in { x \in KeyListsUpTo(MaxGroupLen) :
                                    \A a, b \in 1..Len(x) : a # b => x[a] # x[b] } }
    \cup { PeriodsOfKeys(EightKeys) }

CalcInit ==
    /\ AdminInit
    /\ ServerIdle
    /\ PageIdle
    /\ RequestsIdle
    /\ RoutesIdle
    /\ cOut = [kind |-> "none"]
    /\ cAgain = FALSE
    /\ \/ /\ cKind = "grades"
          /\ cGrades \in CalcGrades
          /\ cPeriods = <<>>
          /\ cScore = 0
       \/ /\ cKind = "periods"
          /\ variant = "A"
          /\ cGrades = <<>>
          /\ cPeriods \in CalcPeriodLists
          /\ cScore = 0
       \/ /\ cKind = "score"
          /\ variant = "A"
          /\ cGrades = <<>>
          /\ cPeriods = <<>>
          /\ cScore \in 0..MaxScoreCents

\* the admin page, freshly loaded, loads the student; a run uses either the
\* admin page or the views, each being a document of its own
CalcAdmin ==
    /\ cKind = "grades"
    /\ ops = 0
    /\ cOut.kind = "none"
    /\ LoadStudent(cGrades)

\* the admin page, the student loaded, cancels the edit
CalcCancel ==
    /\ cKind = "grades"
    /\ ops = 1
    /\ CancelEdit

\* calculateAndDisplayAverages() called once more on the admin page as it stands
\* (the load and cancel handlers call it again after renderAllDynamicSections)
Recalculate ==
    /\ avgs' = calculateAndDisplayAverages(variant, activePeriods, subjects, inputs)
    /\ UNCHANGED <<variant, activePeriods, subjects, inputs, readOnly,
                   cancelHidden, alertMsg, rerendered, payload, request, ops>>

CalcRecalc ==
    /\ cKind = "grades"
    /\ ops >= 1
    /\ Recalculate
    /\ UNCHANGED <<calcVars, serverVars, pageVars, requestVars>>

\* the dashboard displays the current student: displayReportCard(studentData),
\* on login and again from the grade-format toggle
CalcDash ==
    /\ cKind = "grades"
    /\ ops = 0
    /\ cOut' = displayReportCard(cOut, cGrades)
    /\ cAgain' = (cOut.kind \in DashKinds)
    /\ UNCHANGED <<adminVars, serverVars, pageVars, requestVars, cKind, cGrades, cPeriods, cScore>>

\* the student view renders the current student: renderGradeTable(student.grades)
CalcStudent ==
    /\ cKind = "grades"
    /\ ops = 0
    /\ cOut' = renderGradeTable(cOut, cGrades)
    /\ cAgain' = (cOut.kind \in StudentKinds)
    /\ UNCHANGED <<adminVars, serverVars, pageVars, requestVars, cKind, cGrades, cPeriods, cScore>>

\* the students who log in after the first one in the same page session
NextStudents == {<<>>, MathExample}

\* the view having displayed a student, another one logs in on the dashboard
\* (login handler: getStudent, displayReportCard) before the admin page is used
CalcLoginDash(grades) ==
    /\ cKind = "grades"
    /\ ops = 0
    /\ cOut.kind \in DashKinds
    /\ grades # cGrades
    /\ cGrades' = grades
    /\ cOut' = displayReportCard(cOut, grades)
    /\ cAgain' = FALSE
    /\ UNCHANGED <<adminVars, serverVars, pageVars, requestVars, cKind, cPeriods, cScore>>

\* the same on the student view (handleLogin: displayReportCard, renderGradeTable)
CalcLoginStudent(grades) ==
    /\ cKind = "grades"
    /\ ops = 0
    /\ cOut.kind \in StudentKinds
    /\ grades # cGrades
    /\ cGrades' = grades
    /\ cOut' = renderGradeTable(cOut, grades)
    /\ cAgain' = FALSE
    /\ UNCHANGED <<adminVars, serverVars, pageVars, requestVars, cKind, cPeriods, cScore>>

\* groupPeriodsIntoSemesters(cPeriods)
CalcGroup ==
    /\ cKind = "periods"
    /\ cOut' = [kind |-> "group", semesters |-> groupPeriodsIntoSemesters(cPeriods)]
    /\ UNCHANGED <<adminVars, serverVars, pageVars, requestVars, cKind, cGrades, cPeriods, cScore, cAgain>>

\* getLetterGrade(cScore / 100), both copies
CalcLetter ==
    /\ cKind = "score"
    /\ cOut' = [kind |-> "letter", view |-> getLetterGrade(R(cScore, 100)),
                dash |-> DashGetLetterGrade(R(cScore, 100))]
    /\ UNCHANGED <<adminVars, serverVars, pageVars, requestVars, cKind, cGrades, cPeriods, cScore, cAgain>>

CalcNext ==
    \/ CalcAdmin
    \/ CalcCancel
    \/ CalcRecalc
    \/ CalcDash
    \/ CalcStudent
    \/ \E grades \in NextStudents : CalcLoginDash(grades)
    \/ \E grades \in NextStudents : CalcLoginStudent(grades)
    \/ CalcGroup
    \/ CalcLetter

SpecCalc == CalcInit /\ [][CalcNext]_vars

\* the server alone: the admin page idle, requests arriving in any order
SpecServer == Init /\ [][ServerNext]_vars

\* a login page alone
PageInit == AdminInit /\ CalcIdle /\ ServerIdle /\ PageStart /\ RequestsIdle /\ RoutesIdle

SpecPage == PageInit /\ [][PageNext]_vars

\* the create and delete requests alone, in any interleaving
SpecRequests == Init /\ [][RequestsNext]_vars

\* requests to any route with any Authorization header
SpecRoutes == Init /\ [][RoutesNext]_vars

(***************************************************************************)
(* Properties                                                              *)
(***************************************************************************)
RECURSIVE SumInts(_)
SumInts(s) == IF s = <<>> THEN 0 ELSE s[1] + SumInts(Tail(s))

\* the rational a is the fraction num / den (den > 0)
IsFraction(a, num, den) == a.d > 0 /\ a.n * den = num * a.d

FirstFour == SubSeq(PeriodsOfKeys(EightKeys), 1, 4)
LastFour == SubSeq(PeriodsOfKeys(EightKeys), 5, 8)

\* C1: groupPeriodsIntoSemesters on the periods p1, p2, p3, exam1, p4, p5, p6,
\* exam2 returns exactly the two groups [p1,p2,p3,exam1] and [p4,p5,p6,exam2].
C1_TwoSemesterGroups ==
    (cOut.kind = "group" /\ cPeriods = PeriodsOfKeys(EightKeys))
        => cOut.semesters = <<FirstFour, LastFour>>

\* the admin page has loaded the drawn student
AdminLoaded == cKind = "grades" /\ ops = 1

\* C2: every per-period class average is the sum over all subjects of that
\* period's score (missing or non-numeric counting as 0) divided by the number
\* of subjects, in the admin panel (both variants) and the dashboard footer.
C2_ClassAverageOverSubjects ==
    /\ AdminLoaded =>
         \A k \in 1..Len(activePeriods) :
             IsFraction(avgs.period[k],
                        SumInts([i \in 1..Len(subjects) |-> NumOr0(inputs[i][k].v)]),
                        Len(subjects))
    /\ cOut.kind = "dash" =>
         \A m \in 1..Len(cOut.semesters) : \A k \in 1..Len(cOut.semesters[m]) :
             IsFraction(cOut.foot.periodAvgs[m][k],
                        SumInts([i \in 1..Len(cGrades) |->
                                    NumOr0(EntryGet(cGrades[i], cOut.semesters[m][k].id))]),
                        Len(cGrades))

\* the subject has no numeric score in any period of the group
NoScores(grade, sem) == \A k \in 1..Len(sem) : EntryGet(grade, sem[k].id) < 0

\* C3: when only one semester has data (the other has no periods or no
\* scores) the final average equals that semester's average, undivided: admin
\* panel, student view yearly value, dashboard per-subject and footer finals.
C3_OneSemesterFinal ==
    /\ AdminLoaded =>
         LET has1 == \E k \in 1..Len(activePeriods) : activePeriods[k].id \in Sem1Ids
             has2 == \E k \in 1..Len(activePeriods) : activePeriods[k].id \in Sem2Ids
         IN /\ (has1 /\ ~has2) => avgs.final = avgs.sem1
            /\ (has2 /\ ~has1) => avgs.final = avgs.sem2
    /\ cOut.kind = "student" =>
         \A i \in 1..Len(cOut.rows) :
             /\ (~IsNull(cOut.rows[i].avg1) /\ IsNull(cOut.rows[i].avg2))
                   => cOut.rows[i].yearly = cOut.rows[i].avg1
             /\ (IsNull(cOut.rows[i].avg1) /\ ~IsNull(cOut.rows[i].avg2))
                   => cOut.rows[i].yearly = cOut.rows[i].avg2
    /\ cOut.kind = "dash" =>
         /\ Len(cOut.semesters) = 1 =>
              /\ \A i \in 1..Len(cOut.rows) : cOut.rows[i].final = cOut.rows[i].semAvgs[1]
              /\ cOut.foot.final = cOut.foot.semAvgs[1]
         /\ Len(cOut.semesters) = 2 =>
              \A i \in 1..Len(cOut.rows) :
                 /\ (NoScores(cGrades[i], cOut.semesters[2])
                       /\ ~NoScores(cGrades[i], cOut.semesters[1]))
                       => cOut.rows[i].final = cOut.rows[i].semAvgs[1]
                 /\ (NoScores(cGrades[i], cOut.semesters[1])
                       /\ ~NoScores(cGrades[i], cOut.semesters[2]))
                       => cOut.rows[i].final = cOut.rows[i].semAvgs[2]

\* C4: on the admin page the registry always holds at least one period.
C4_AtLeastOnePeriod == Len(activePeriods) >= 1

\* C5: on the admin page no two entries of the registry have the same id,
\* whatever the clock returns when addPeriod falls back to kind_timestamp.
C5_UniquePeriodIds ==
    \A a, b \in 1..Len(activePeriods) :
        a # b => activePeriods[a].id # activePeriods[b].id

RemoveWarning == "You must have at least one period."

\* reg with the entry at position k taken out
WithoutPosition(reg, k) == SubSeq(reg, 1, k - 1) \o SubSeq(reg, k + 1, Len(reg))

\* C6: removePeriod on a registry of exactly one period leaves the registry
\* and the grade inputs as they are, does not re-render and warns the user; on
\* a registry of two or more periods it removes the period with the given id
\* and no other period (nothing when no period has that id).
C6_RemovePeriod ==
    [][\A periodId \in IdsOf(activePeriods) \cup {AbsentId} :
          RemovePeriod(periodId) =>
             /\ Len(activePeriods) = 1 =>
                   /\ activePeriods' = activePeriods
                   /\ inputs' = inputs
                   /\ ~rerendered'
                   /\ alertMsg' = RemoveWarning
             /\ Len(activePeriods) >= 2 =>
                   IF periodId \in IdsOf(activePeriods)
                   THEN \E k \in 1..Len(activePeriods) :
                           /\ activePeriods[k].id = periodId
                           /\ activePeriods' = WithoutPosition(activePeriods, k)
                   ELSE activePeriods' = activePeriods
      ]_vars

\* the suffix the claim gives the ordinal n
ExpectedSuffix(n) ==
    IF n % 100 \in {11, 12, 13} THEN "th"
    ELSE IF n % 10 = 1 THEN "st"
    ELSE IF n % 10 = 2 THEN "nd"
    ELSE IF n % 10 = 3 THEN "rd" ELSE "th"

\* what the claim says of the period addPeriod appends, given the id
AddedAsClaimed(reg, regAfter, type, customName, id) ==
    LET n == Cardinality({k \in 1..Len(reg) : reg[k].type = type}) + 1
        last == regAfter[Len(regAfter)]
    IN /\ Len(regAfter) = Len(reg) + 1
       /\ SubSeq(regAfter, 1, Len(reg)) = reg
       /\ last.type = type
       /\ last.id = id
       /\ customName = "" =>
             last.name = IF type = "period"
                         THEN [tpl |-> "Period", n |-> n, sfx |-> ExpectedSuffix(n)]
                         ELSE [tpl |-> "Exam", n |-> n, sfx |-> ""]

SequentialId(reg, type) ==
    [pfx |-> IF type = "period" THEN "p" ELSE "exam",
     num |-> Cardinality({k \in 1..Len(reg) : reg[k].type = type}) + 1]

\* C7 as claimed: addPeriod(kind) always assigns the next sequential id of
\* its kind ('p' or 'exam' followed by the count of that kind plus one),
\* appends the period at the end and, with no custom name, names it
\* '<n><st|nd|rd|th> Period' or 'Exam <n>'.
C7_AlwaysSequentialId ==
    [][\A type \in {"period", "exam"}, customName \in CustomNames, now \in Clock :
          AddPeriod(type, customName, now) =>
             AddedAsClaimed(activePeriods, activePeriods', type, customName,
                            SequentialId(activePeriods, type))
      ]_vars

\* C7 amended: addPeriod(kind) assigns the next sequential id of its kind
\* when no period of the registry has that id yet, and kind_timestamp
\* otherwise; the period is appended at the end and, with no custom name, is
\* named after the count of its kind, '<n><st|nd|rd|th> Period' (11th, 12th,
\* 13th) or 'Exam <n>'.
C7_SequentialIdUnlessTaken ==
    /\ \A n \in {1, 2, 3, 4, 11, 12, 13, 21, 22, 23, 101, 111, 112, 113} :
          getOrdinalSuffix(n) = ExpectedSuffix(n)
    /\ \A now \in Clock :
          addPeriodReg(addPeriodReg(<<>>, "period", "", now), "period", "", now)
             = << [id |-> [pfx |-> "p", num |-> 1],
                   name |-> [tpl |-> "Period", n |-> 1, sfx |-> "st"],
                   type |-> "period"],
                  [id |-> [pfx |-> "p", num |-> 2],
                   name |-> [tpl |-> "Period", n |-> 2, sfx |-> "nd"],
                   type |-> "period"] >>
    /\ [][\A type \in {"period", "exam"}, customName \in CustomNames, now \in Clock :
             AddPeriod(type, customName, now) =>
                AddedAsClaimed(activePeriods, activePeriods', type, customName,
                   IF SequentialId(activePeriods, type) \in IdsOf(activePeriods)
                   THEN [pfx |-> IF type = "period" THEN "period_" ELSE "exam_", num |-> now]
                   ELSE SequentialId(activePeriods, type))
         ]_vars

\* addPeriod('period') ran twice on a registry without periods of that kind
C7_Witness ==
    /\ Len(activePeriods) = 3
    /\ activePeriods[1].id = [pfx |-> "exam", num |-> 1]
    /\ activePeriods[2] = [id |-> [pfx |-> "p", num |-> 1],
                           name |-> [tpl |-> "Period", n |-> 1, sfx |-> "st"],
                           type |-> "period"]
    /\ activePeriods[3] = [id |-> [pfx |-> "p", num |-> 2],
                           name |-> [tpl |-> "Period", n |-> 2, sfx |-> "nd"],
                           type |-> "period"]

\* every score of the group is a number
AllScores(grade, keys) == \A k \in 1..Len(keys) : EntryGet(grade, keys[k]) >= 0

\* C8: a subject's semester average over a group is the arithmetic mean of
\* its scores over the periods of the group; Math with p1=90, p2=80, p3=70,
\* exam1=60 has semester-1 average 75 in the dashboard and the student view.
C8_SemesterAverageIsMean ==
    /\ cOut.kind = "dash" =>
         /\ \A i \in 1..Len(cOut.rows) : \A m \in 1..Len(cOut.semesters) :
               LET ids == [k \in 1..Len(cOut.semesters[m]) |-> cOut.semesters[m][k].id]
               IN (Len(ids) > 0 /\ AllScores(cGrades[i], ids)) =>
                     IsFraction(cOut.rows[i].semAvgs[m],
                                SumInts([k \in 1..Len(ids) |-> EntryGet(cGrades[i], ids[k])]),
                                Len(ids))
         /\ cGrades = MathExample => cOut.rows[1].semAvgs = <<[n |-> 75, d |-> 1]>>
    /\ cOut.kind = "student" =>
         /\ \A i \in 1..Len(cOut.rows) :
               /\ AllScores(cGrades[i], Sem1Keys) =>
                     IsFraction(cOut.rows[i].avg1,
                                SumInts([k \in 1..4 |-> EntryGet(cGrades[i], Sem1Keys[k])]), 4)
               /\ AllScores(cGrades[i], Sem2Keys) =>
                     IsFraction(cOut.rows[i].avg2,
                                SumInts([k \in 1..4 |-> EntryGet(cGrades[i], Sem2Keys[k])]), 4)
         /\ cGrades = MathExample => cOut.rows[1].avg1 = [n |-> 75, d |-> 1]

C8_Witness ==
    /\ cOut.kind = "dash"
    /\ cGrades = MathExample
    /\ cOut.rows[1].semAvgs[1] = [n |-> 75, d |-> 1]

\* a displayed average: a number, never NaN or infinite
Defined(a) == a.d > 0
\* a displayed average of the student view: a number or the absent marker
DefinedOrAbsent(a) == a.d > 0 \/ a = NullR

\* C9: no average is NaN or infinite: whatever the subjects, the registry and
\* the scores, every per-period, per-semester and final average of the admin
\* panel, the dashboard and the student view is a number (or the absent marker
\* in the student view).
C9_NoDivisionByZero ==
    /\ /\ \A k \in 1..Len(avgs.period) : Defined(avgs.period[k])
       /\ Defined(avgs.sem1) /\ Defined(avgs.sem2) /\ Defined(avgs.final)
    /\ cOut.kind = "dash" =>
         /\ \A i \in 1..Len(cOut.rows) :
               /\ \A m \in 1..Len(cOut.rows[i].semAvgs) : Defined(cOut.rows[i].semAvgs[m])
               /\ Defined(cOut.rows[i].final)
         /\ \A m \in 1..Len(cOut.foot.periodAvgs) :
               /\ \A k \in 1..Len(cOut.foot.periodAvgs[m]) : Defined(cOut.foot.periodAvgs[m][k])
               /\ Defined(cOut.foot.semAvgs[m])
         /\ Defined(cOut.foot.final)
    /\ cOut.kind = "student" =>
         /\ \A i \in 1..Len(cOut.rows) :
               /\ DefinedOrAbsent(cOut.rows[i].avg1)
               /\ DefinedOrAbsent(cOut.rows[i].avg2)
               /\ DefinedOrAbsent(cOut.rows[i].yearly)
         /\ \A k \in 1..4 : DefinedOrAbsent(cOut.footSem1[k]) /\ DefinedOrAbsent(cOut.footSem2[k])
         /\ DefinedOrAbsent(cOut.footAvg1) /\ DefinedOrAbsent(cOut.footAvg2)
         /\ DefinedOrAbsent(cOut.footYearly)
         /\ Defined(cOut.finalAvg)

\* the dashboard displayed a student whose entries hold no period at all
C9_Witness ==
    /\ cOut.kind = "dash"
    /\ cOut.semesters = << <<>> >>
    /\ cOut.foot.final = [n |-> 0, d |-> 1]

\* the grade the claim gives a score of c hundredths
ExpectedLetter(c) ==
    IF c >= 9000 THEN "A" ELSE IF c >= 8000 THEN "B"
    ELSE IF c >= 7000 THEN "C" ELSE IF c >= 6000 THEN "D" ELSE "F"

\* C10: getLetterGrade returns A from 90, B from 80, C from 70, D from 60 and
\* F below 60, each threshold inclusive (59.99 F, 60 D, 89.99 B, 90 A), and
\* the student-view and dashboard copies agree on every score of [0, 100] at
\* 0.01 resolution.
C10_LetterGrade ==
    cOut.kind = "letter" =>
        /\ cOut.view = ExpectedLetter(cScore)
        /\ cOut.dash = cOut.view
        /\ cScore = 5999 => cOut.view = "F"
        /\ cScore = 6000 => cOut.view = "D"
        /\ cScore = 8999 => cOut.view = "B"
        /\ cScore = 9000 => cOut.view = "A"

C10_Witness == cOut.kind = "letter" /\ cScore = 5999 /\ cOut.view = "F" /\ cOut.dash = "F"

\* the numeric scores a stored entry holds over the periods of the table
ComparableScores(grade, semesters) ==
    UNION {{EntryGet(grade, semesters[m][k].id) : k \in 1..Len(semesters[m])} :
              m \in 1..Len(semesters)} \ {Missing, Garbage}

\* the cells of a dashboard row, by position
CellsOf(row) ==
    UNION {{row.cells[m][k] : k \in 1..Len(row.cells[m])} : m \in 1..Len(row.cells)}

\* C11: in a dashboard row a cell is flagged highest-score or lowest-score
\* only when the subject has at least two distinct numeric scores over its
\* periods; with all numeric scores equal, or fewer than two of them, no cell
\* is flagged; and no cell is flagged both highest and lowest.
C11_HighlightNeedsTwoDistinct ==
    cOut.kind = "dash" =>
        \A i \in 1..Len(cOut.rows) :
            /\ (\E c \in CellsOf(cOut.rows[i]) : c.highest \/ c.lowest)
                  => Cardinality(ComparableScores(cGrades[i], cOut.semesters)) >= 2
            /\ \A c \in CellsOf(cOut.rows[i]) : ~(c.highest /\ c.lowest)

\* a subject with the scores 0 and 100 has its 100 flagged highest and its 0 lowest
C11_Witness ==
    /\ cOut.kind = "dash"
    /\ \E i \in 1..Len(cOut.rows) :
          /\ \E c \in CellsOf(cOut.rows[i]) : c.highest /\ c.score = 100
          /\ \E c \in CellsOf(cOut.rows[i]) : c.lowest /\ c.score = 0

\* the type the claim gives the period derived from a key
ExpectedType(key) ==
    IF key.pfx \in {"exam", "exam_"} THEN "exam"
    ELSE IF key.pfx = "sem" THEN "semester" ELSE "period"

\* C12: every period derived from the keys of the first subject's entry has
\* type exam when its key starts with 'exam', semester when it starts with
\* 'sem' (the stored keys sem1 and sem2 included) and period otherwise, in the
\* admin loader and in the dashboard's displayReportCard.
C12_DerivedTypes ==
    /\ AdminLoaded =>
         \A k \in 1..Len(activePeriods) :
             activePeriods[k].type = ExpectedType(activePeriods[k].id)
    /\ cOut.kind = "dash" =>
         \A k \in 1..Len(cOut.periods) :
             cOut.periods[k].type = ExpectedType(cOut.periods[k].id)

\* the keys of a stored entry that are not period keys
NonPeriodKeys ==
    { [pfx |-> "subject", num |-> NoNum], [pfx |-> "comment", num |-> NoNum],
      [pfx |-> "_id", num |-> NoNum], [pfx |-> "__v", num |-> NoNum] }

\* the period keys of an entry, in key order
PeriodKeys(e) == SelectSeq(EntryKeys(e), LAMBDA k : k \notin NonPeriodKeys)

\* C13: the registry derived from a stored entry holds one period for every
\* key of the first subject's entry other than 'subject', 'comment', '_id'
\* and '__v', in key order, and no period for these four, in both admin
\* variants of setActivePeriodsFromGrades and in displayReportCard.
C13_DerivedKeys ==
    /\ (AdminLoaded /\ Len(cGrades) > 0 /\ PeriodKeys(cGrades[1]) # <<>>) =>
         [k \in 1..Len(activePeriods) |-> activePeriods[k].id] = PeriodKeys(cGrades[1])
    /\ cOut.kind = "dash" =>
         [k \in 1..Len(cOut.periods) |-> cOut.periods[k].id] = PeriodKeys(cGrades[1])

\* the ten default periods the claim lists
TenDefaults ==
    << [pfx |-> "p", num |-> 1], [pfx |-> "p", num |-> 2], [pfx |-> "p", num |-> 3],
       [pfx |-> "exam", num |-> 1], [pfx |-> "sem", num |-> 1],
       [pfx |-> "p", num |-> 4], [pfx |-> "p", num |-> 5], [pfx |-> "p", num |-> 6],
       [pfx |-> "exam", num |-> 2], [pfx |-> "sem", num |-> 2] >>

\* the registry is the ten default periods, in order, with their types
IsDefaultRegistry(reg) ==
    /\ [k \in 1..Len(reg) |-> reg[k].id] = TenDefaults
    /\ \A k \in 1..Len(reg) : reg[k].type = ExpectedType(reg[k].id)

\* the admin page has loaded the drawn student and cancelled the edit
AdminCancelled == cKind = "grades" /\ ops = 2

\* the loader derives no period from the drawn data: the grades array is
\* empty, or the first entry holds the subject alone, or (variant B, which
\* skips the comment) the subject and a comment
YieldsNoPeriod ==
    \/ cGrades = <<>>
    \/ EntryKeys(cGrades[1]) = <<SubjectKey>>
    \/ variant = "B" /\ PeriodKeys(cGrades[1]) = <<>>

PresentScores(grade, keys) ==
    SelectSeq([k \in 1..Len(keys) |-> EntryGet(grade, keys[k])], LAMBDA v : v >= 0)

\* a is the mean of the integers of s, or the absent marker when s is empty
IsMeanOrAbsent(a, s) ==
    IF Len(s) = 0 THEN a = NullR ELSE IsFraction(a, SumInts(s), Len(s))

\* the numeric scores the entries hold under one key, in subject order
ColumnScores(grades, key) ==
    SelectSeq([i \in 1..Len(grades) |-> EntryGet(grades[i], key)], LAMBDA v : v >= 0)

\* C15: in the student view a subject's semester average is the mean of the
\* present, numeric scores among the semester's periods (absent, empty and
\* non-numeric entries are skipped, a score of 0 counts) and is null exactly
\* when there is none; a footer column average divides by the number of
\* present values and is '-' when there is none.
C15_StudentAverageSkipsAbsent ==
    cOut.kind = "student" =>
        /\ \A i \in 1..Len(cOut.rows) :
              /\ IsMeanOrAbsent(cOut.rows[i].avg1, PresentScores(cGrades[i], Sem1Keys))
              /\ IsMeanOrAbsent(cOut.rows[i].avg2, PresentScores(cGrades[i], Sem2Keys))
        /\ \A k \in 1..4 :
              /\ IsMeanOrAbsent(cOut.footSem1[k], ColumnScores(cGrades, Sem1Keys[k]))
              /\ IsMeanOrAbsent(cOut.footSem2[k], ColumnScores(cGrades, Sem2Keys[k]))
        /\ (cOut.footAvg1 = NullR) <=> (\A i \in 1..Len(cOut.rows) : cOut.rows[i].avg1 = NullR)
        /\ (cOut.footAvg2 = NullR) <=> (\A i \in 1..Len(cOut.rows) : cOut.rows[i].avg2 = NullR)

\* a subject with p1 = 0 and no exam1 score has the semester average 0, while
\* another with p1 = 100 and a non-numeric exam1 has 100
C15_Witness ==
    /\ cOut.kind = "student"
    /\ Len(cGrades) = 2
    /\ PresentScores(cGrades[1], Sem1Keys) = <<0>>
    /\ EntryGet(cGrades[2], Sem1Keys[1]) = 100
    /\ EntryGet(cGrades[2], Sem1Keys[4]) = Garbage
    /\ cOut.rows[1].avg1 = [n |-> 0, d |-> 1]
    /\ cOut.rows[2].avg1 = [n |-> 100, d |-> 1]
    /\ cOut.rows[2].avg2 = NullR

\* the positions of the subjects whose name is not blank, in order
NamedSubjects(subj) == SelectSeq([i \in 1..Len(subj) |-> i], LAMBDA i : subj[i].name # "")

\* the grades array sent is what the claim says of the form it was collected from
PayloadAsClaimed(sent, reg, subj, inp) ==
    LET named == NamedSubjects(subj)
    IN /\ Len(sent) = Len(named)
       /\ \A m \in 1..Len(sent) :
             /\ sent[m].subject = subj[named[m]].name
             /\ {sent[m].cells[c].k : c \in 1..Len(sent[m].cells)} = IdsOf(reg)
             /\ \A k \in 1..Len(reg) :
                   EntryGet(sent[m], reg[k].id) = NumOr0(inp[named[m]][k].v)

\* C16: the grades a submit sends hold, for every subject with a non-blank
\* name and every period of the registry and no other key, the score entered
\* for that subject and period, or 0 when the input is empty or not a number.
C16_SubmitPayload ==
    [][payload' # <<>> => PayloadAsClaimed(payload', activePeriods, subjects, inputs)]_vars

SameElements(s, t) ==
    /\ Len(s) = Len(t)
    /\ \A x \in {s[k] : k \in 1..Len(s)} :
          Cardinality({k \in 1..Len(s) : s[k] = x}) = Cardinality({k \in 1..Len(t) : t[k] = x})

NoExam(periods) == \A k \in 1..Len(periods) : periods[k].type # "exam"

\* C18: groupPeriodsIntoSemesters on a non-empty input without an exam-type
\* period returns exactly one group, holding all the input periods ([p1, p2]
\* yields [[p1, p2]]); on an empty input it returns exactly one empty group
C18_SingleGroupWithoutExam ==
    cOut.kind = "group" =>
        /\ cPeriods = <<>> => cOut.semesters = << <<>> >>
        /\ (cPeriods # <<>> /\ NoExam(cPeriods)) =>
              /\ Len(cOut.semesters) = 1
              /\ SameElements(cOut.semesters[1], cPeriods)
        /\ cPeriods = PeriodsOfKeys(<<Id("p", 1), Id("p", 2)>>) =>
              cOut.semesters = <<cPeriods>>

\* the function has grouped three periods, none an exam, given out of order
C18_Witness ==
    /\ cOut.kind = "group"
    /\ cPeriods = PeriodsOfKeys(<<Id("p", 3), Id("p", 1), Id("p", 2)>>)
    /\ Len(cOut.semesters) = 1

\* the documents of the collection other than id are the same in both
SameButFor(before, after, id) ==
    \A other \in StudentIds \ {id} : after[other] = before[other]

DashShowsFallback(dom) == dom.overall = DashGetLetterGrade(RInt(0))

\* the student view shows the fallback: '-' in every footer cell, 0 as the
\* final percentage and its letter as the badge
StudentShowsFallback(dom) ==
    /\ \A k \in 1..4 : IsNull(dom.footSem1[k]) /\ IsNull(dom.footSem2[k])
    /\ IsNull(dom.footAvg1) /\ IsNull(dom.footAvg2) /\ IsNull(dom.footYearly)
    /\ dom.finalAvg = RInt(0)
    /\ dom.badge = getLetterGrade(RInt(0))

\* C20: when a report card with no grades is displayed after another
\* student's in the same page session, every displayed average, the final
\* percentage and the overall grade are the fallback values, none is a value
\* computed from the student displayed before (dashboard and student view)
C20_EmptyReportShowsFallback ==
    [][/\ (cOut.kind = "dash" /\ cOut'.kind = "dashEmpty") => DashShowsFallback(cOut')
       /\ (cOut.kind = "student" /\ cOut'.kind = "studentEmpty") =>
            StudentShowsFallback(cOut')]_vars

\* C21: for periods of types period and exam with unique ids, the groups of
\* groupPeriodsIntoSemesters are a partition of the input (each period in
\* exactly one group, none added or lost), every group but possibly the last
\* ends with an exam, no group holds an exam before its last position, and no
\* group is empty unless the input is empty
C21_GroupsPartitionInput ==
    cOut.kind = "group" =>
        LET g == cOut.semesters
        IN /\ SameElements(Flatten(g), cPeriods)
           /\ \A m \in 1..(Len(g) - 1) :
                 Len(g[m]) > 0 /\ g[m][Len(g[m])].type = "exam"
           /\ \A m \in 1..Len(g) : \A k \in 1..(Len(g[m]) - 1) : g[m][k].type # "exam"
           /\ \A m \in 1..Len(g) : g[m] = <<>> => cPeriods = <<>>

\* the function has grouped periods and two exams, given with an exam first
C21_Witness ==
    /\ cOut.kind = "group"
    /\ cPeriods = PeriodsOfKeys(<<Id("exam", 2), Id("p", 1), Id("exam", 1)>>)
    /\ Len(cOut.semesters) = 2

UniqueIds(reg) == \A a, b \in 1..Len(reg) : a # b => reg[a].id # reg[b].id

\* every input of the form after shows, for a period the registry held before,
\* the value its input showed before, and the placeholder 90 for a new period
ScoresKept(regBefore, inpBefore, regAfter, inpAfter) ==
    \A i \in 1..Len(inpAfter) : \A k \in 1..Len(regAfter) :
        inpAfter[i][k].v = IF regAfter[k].id \in IdsOf(regBefore)
                           THEN DomValue(inpBefore, regBefore, i, regAfter[k].id)
                           ELSE 90

\* the step adds a period, or removes one
PeriodStep ==
    \/ ClickAddPeriod
    \/ ClickRemovePeriod /\ alertMsg' = ""

\* C22: adding or removing a period leaves the entered score of every subject
\* unchanged for every period that stays in the registry, 0 included; only the
\* added period's column is new, with the placeholder, and only the removed
\* period's column disappears (stated for registries without duplicate ids)
C22_PeriodChangeKeepsScores ==
    [][(PeriodStep /\ UniqueIds(activePeriods) /\ UniqueIds(activePeriods')) =>
          /\ Len(inputs') = Len(inputs)
          /\ ScoresKept(activePeriods, inputs, activePeriods', inputs')]_vars

\* the values a row of grade inputs shows
RowValues(row) == [k \in 1..Len(row) |-> row[k].v]

\* C23: adding or removing a subject leaves the name and the entered scores of
\* every other subject unchanged: after add-subject the existing subjects show
\* the scores entered before, and after removing subject k every remaining
\* subject keeps its own scores, the removed subject's scores are not handed to
\* the subject that takes its index (stated for registries without duplicate ids)
C23_SubjectChangeKeepsOthers ==
    [][/\ (AddSubject /\ UniqueIds(activePeriods)) =>
            \A i \in 1..Len(subjects) :
                /\ subjects'[i] = subjects[i]
                /\ RowValues(inputs'[i]) = RowValues(inputs[i])
       /\ \A k \in 2..MaxSubjects :
            (RemoveSubject(k) /\ UniqueIds(activePeriods)) =>
                \A i \in 1..Len(subjects') :
                    LET old == IF i < k THEN i ELSE i + 1
                    IN /\ subjects'[i] = subjects[old]
                       /\ RowValues(inputs'[i]) = RowValues(inputs[old])]_vars

\* the comment text of an entry ('' when it has none)
CommentOf(e) == IF e.hasComment THEN e.comment ELSE ""

\* the period keys of an entry and their scores
CellKeys(e) == {e.cells[c].k : c \in 1..Len(e.cells)}

\* sent equals stored subject by subject: names, period keys, scores, comments
SameGrades(stored, sent) ==
    /\ Len(sent) = Len(stored)
    /\ \A i \in 1..Len(sent) :
          /\ sent[i].subject = stored[i].subject
          /\ CellKeys(sent[i]) = CellKeys(stored[i])
          /\ \A key \in CellKeys(stored[i]) : EntryGet(sent[i], key) = EntryGet(stored[i], key)
          /\ CommentOf(sent[i]) = CommentOf(stored[i])

\* every stored score is a number in [0, 100]
ScoresInRange(stored) ==
    \A i \in 1..Len(stored) : \A c \in 1..Len(stored[i].cells) :
        stored[i].cells[c].v \in 0..100

\* the form shows the stored student as the load handler rendered it
ShowsLoaded(stored) ==
    /\ readOnly
    /\ activePeriods = setActivePeriodsFromGrades(variant, stored)
    /\ subjects = FormSubjects(variant, stored)
    /\ inputs = renderGradesSection(activePeriods, Len(subjects), FormData(stored))

\* C24: loading a stored student into the admin form and submitting without
\* an edit sends a grades array equal to the stored one: the same subject
\* names, the same period keys, the same score for every period (0 included)
\* and the same comment text
C24_LoadSubmitRoundTrip ==
    [][\A stored \in StoredGrades :
          (ShowsLoaded(stored) /\ stored # <<>> /\ ScoresInRange(stored) /\ payload' # <<>>) =>
              SameGrades(stored, payload')]_vars

\* the step is a successful load-student
LoadStep ==
    /\ rerendered' /\ request' = NoRequest /\ alertMsg' = ""
    /\ \E grades \in StoredGrades : LoadStudent(grades)

\* the step ends an edit: cancel-edit clicked, by the user or by the handler of
\* a successful update or delete
CancelStep == CancelEdit \/ (request'.ok /\ request'.method \in {"PUT", "DELETE"})

\* the step is a load, a submit or a delete that failed
FailedStep == LoadStudentFails \/ (request'.method # "" /\ ~request'.ok)

C26_InactivityTimer ==
    /\ timeouts = {}
    /\ [][/\ Cardinality(timeouts') <= 1
          /\ timeouts' # {} => page = "student" /\ section' = "report"
          /\ Activity /\ section = "report"
                => timeouts' = {inactivityTimer'} /\ inactivityTimer' \notin timeouts
          /\ ClickLogout => timeouts' = {}
          /\ (\E t \in timeouts : TimerFires(t))
                => /\ section = "report"
                   /\ section' = "login"
                   /\ currentStudentData' = NoStudent
                   /\ sessionModal'
                   /\ timeouts' = {}]_vars

\* a timeout set by a login and restarted by an activity event has fired
C26_Witness ==
    /\ event.kind = "expired"
    /\ inactivityTimer = 2
    /\ sessionModal
    /\ section = "login"
    /\ currentStudentData = NoStudent

\* the step is a login attempt getting the student stored under the entered id,
\* whose name is the entered name up to case
LoginMatched ==
    /\ event'.kind = "resolved"
    /\ event'.fetched
    /\ event'.student.id = event'.id
    /\ toLowerCase(event'.student.name) = toLowerCase(event'.name)

\* the step is a login attempt whose fetch failed or whose names differ
LoginFailed == event'.kind = "resolved" /\ ~LoginMatched

\* C27: on both login pages the report section becomes visible, and
\* currentStudentData is set, only by a login attempt whose fetch for the
\* entered id succeeded with a name equal to the entered one up to case; after
\* an attempt whose fetch failed or whose name differs the login section is
\* visible, currentStudentData is what it was and the error message is shown;
\* the report section is visible only while currentStudentData is not null;
\* and on the student view the submit button is enabled and the spinner
\* hidden after every attempt.
C27_ReportOnlyAfterMatch ==
    /\ section = "login"
    /\ [][/\ section' = "report" => currentStudentData' # NoStudent
          /\ \/ section' = "report" /\ section = "login"
             \/ currentStudentData' \notin {currentStudentData, NoStudent}
             => LoginMatched /\ currentStudentData' = event'.student
          /\ LoginFailed => /\ section' = "login"
                            /\ currentStudentData' = currentStudentData
                            /\ errorMessage'
          /\ page = "student" /\ event'.kind = "resolved"
                => ~submitDisabled' /\ ~loadingSpinner'
          /\ page = "student" /\ event'.kind = "submit" /\ logins' = logins
                => ~submitDisabled' /\ ~loadingSpinner']_vars

\* the create requests for id among the requests h
PostsFor(h, id) == {r \in Requests : h[r].op = "post" /\ h[r].id = id}

\* the requests h for id are create requests only, all answered, none after a
\* rejected database call
OnlyPostsDone(h, id) ==
    \A r \in Requests : h[r].id = id =>
        h[r].op = "post" /\ h[r].pc = "done" /\ ~h[r].fault

\* C28: a create request never changes a student that is stored; a create
\* request that answers while a student it did not store is stored under its
\* id answers 409 and stores nothing; and of the create requests for one id, however their
\* awaits interleave, exactly one answers 201 and every other one 409.
C28_CreateExistingAnswers409 ==
    [][/\ \A id \in StudentIds :
             students[id].exists /\ students'[id] # students[id]
                => \E r \in Requests : handlers[r].op = "delete" /\ handlers'[r] # handlers[r]
       /\ \A r \in Requests :
             /\ handlers[r].op = "post"
             /\ handlers[r].pc # "done" /\ handlers'[r].pc = "done"
             /\ ~handlers'[r].fault /\ ~handlers[r].stored
             /\ students[handlers[r].id].exists
             => handlers'[r].status = 409 /\ students' = students
       /\ \A id \in StudentIds :
             OnlyPostsDone(handlers', id) /\ PostsFor(handlers', id) # {}
                => /\ Cardinality({r \in PostsFor(handlers', id) :
                                      handlers'[r].status = 201}) = 1
                   /\ \A r \in PostsFor(handlers', id) :
                         handlers'[r].status \in {201, 409}]_vars

\* C29: a create request that answers with a failure has stored no student
\* and a delete request that answers with a failure has deleted none; a
\* create answered 201 and a delete answered with success each have exactly
\* one log entry, ADD_STUDENT and DELETE_STUDENT respectively.
C29_AnswersAgreeWithStore ==
    \A r \in Requests : handlers[r].pc = "done" =>
        LET h == handlers[r]
            good == IF h.op = "post" THEN 201 ELSE 200
            action == IF h.op = "post" THEN "ADD_STUDENT" ELSE "DELETE_STUDENT"
            mine == {k \in 1..Len(logs) : logs[k].request = r}
        IN  /\ h.status # good => ~h.stored
            /\ h.status = good
                 => Cardinality(mine) = 1 /\ \A k \in mine : logs[k].action = action

\* C30: a request to a token-protected route without a Bearer token is
\* answered 401 and one with a token that does not verify 403, in both cases
\* without the handler running; and a request to a super-admin-only route whose
\* verified token's email is not in SUPER_ADMINS is answered 403 with no read
\* of a store, no mutation, no email and no log write.
C30_GuardsBeforeHandlers ==
    /\ served.route \in TokenRoutes /\ served.header \in {"none", "basic"}
          => served.status = 401 /\ ~served.ran /\ served.effects = <<>>
    /\ served.route \in TokenRoutes /\ served.header = "invalid"
          => served.status = 403 /\ ~served.ran /\ served.effects = <<>>
    /\ served.route \in SuperRoutes /\ served.header \in {"anon", "user"}
          => served.status = 403 /\ served.effects = <<>>
    /\ served.route \in SuperRoutes /\ served.effects # <<>>
          => served.header = "super"

\* an instructor's restore request was turned away by the handler
C30_Witness ==
    /\ served.route = "POST /api/restore"
    /\ served.header = "user"
    /\ served.ran
    /\ served.status = 403

====
